---- MODULE Spec2Model ----
(***************************************************************************)
(* The matching-and-validation engine of dim-matcher: one run of           *)
(* processSourceChunk (count read, page read, two batched candidate        *)
(* searches, scoring, pair building, AI validation in parallel groups of   *)
(* sub-batches, status resolution), the judge route's parseCSVResponse and *)
(* determineFinalStatus.                                                   *)
(***************************************************************************)
EXTENDS Integers, Sequences, FiniteSets, TLC

(***************************************************************************)
(* Bounds of the model.                                                    *)
(***************************************************************************)
\* source rows in the store
MaxStore == 2
\* largest page size (chunkSize) and offset (startIndex) a call is made with
MaxChunk == 2
\* lines of one judge response in the validation specification
MaxLines == 2
\* pairs handed to validateBatchWithAI in the validation specification
MaxPairs == 6
\* largest heuristic score handed to determineFinalStatus
MaxHeuristic == 200

(***************************************************************************)
(* Configuration (config.ts).                                              *)
(***************************************************************************)
AI_CONFIG == [minScore |-> 20, maxScore |-> 100, batchSize |-> 5, parallelBatches |-> 2]

MATCHING == [threshold |-> 85, maxPossibleScore |-> 195,
             fields |-> [Name |-> [exact |-> 85, alike |-> 50],
                         Phone |-> 30, Website |-> 25,
                         BillingStreet |-> 20, BillingCity |-> 10]]

BATCH_SIZE == 5

PARALLEL_BATCHES == 2

(***************************************************************************)
(* Verdicts (AIValidationResult).  The optional error field is present on  *)
(* every record; NoError stands for "undefined".  null is the JavaScript   *)
(* null handed to determineFinalStatus when a record has no verdict.       *)
(***************************************************************************)
NoError == "undefined"

null == [isMatch |-> FALSE, confidence |-> 0, reasoning |-> "null", error |-> NoError]

AIValidationResult(isMatch, confidence, reasoning, error) ==
  [isMatch |-> isMatch, confidence |-> confidence, reasoning |-> reasoning, error |-> error]

(***************************************************************************)
(* shouldValidateWithAI and determineFinalStatus (ai-validation.ts).       *)
(***************************************************************************)
\* the band with both bounds excluded
shouldValidateWithAIExclusive(heuristicScore) ==
  heuristicScore > AI_CONFIG.minScore /\ heuristicScore < AI_CONFIG.maxScore

shouldValidateWithAI(heuristicScore) ==
  heuristicScore >= AI_CONFIG.minScore /\ heuristicScore <= AI_CONFIG.maxScore

determineFinalStatusNoMin(heuristicScore, aiResult) ==
  IF aiResult = null \/ aiResult.error # NoError
  THEN "REVIEW"
  ELSE IF aiResult.confidence >= 80
       THEN (IF aiResult.isMatch THEN "CONFIRMED" ELSE "REJECTED")
       ELSE IF aiResult.confidence >= 60 /\ aiResult.isMatch /\ heuristicScore >= 85
            THEN "CONFIRMED"
            ELSE IF aiResult.confidence >= 60 /\ ~aiResult.isMatch /\ heuristicScore < 50
                 THEN "REJECTED"
                 ELSE "REVIEW"

determineFinalStatusLowIsReject(heuristicScore, aiResult) ==
  IF aiResult = null \/ aiResult.error # NoError
  THEN IF heuristicScore > 100 THEN "REVIEW"
       ELSE IF heuristicScore < AI_CONFIG.minScore THEN "REJECTED"
       ELSE "REVIEW"
  ELSE IF aiResult.confidence >= 80
       THEN (IF aiResult.isMatch THEN "CONFIRMED" ELSE "REJECTED")
       ELSE IF aiResult.confidence >= 60 /\ aiResult.isMatch /\ heuristicScore >= 85
            THEN "CONFIRMED"
            ELSE IF aiResult.confidence >= 60 /\ ~aiResult.isMatch
                 THEN "REJECTED"
                 ELSE "REVIEW"

determineFinalStatusScoreConfirms(heuristicScore, aiResult) ==
  IF aiResult = null \/ aiResult.error # NoError
  THEN IF heuristicScore > 100 THEN "CONFIRMED"
       ELSE IF heuristicScore < AI_CONFIG.minScore THEN "REJECTED"
       ELSE "REVIEW"
  ELSE IF aiResult.confidence >= 80
       THEN (IF aiResult.isMatch THEN "CONFIRMED" ELSE "REJECTED")
       ELSE IF aiResult.confidence >= 60 /\ aiResult.isMatch /\ heuristicScore >= 85
            THEN "CONFIRMED"
            ELSE IF aiResult.confidence >= 60 /\ ~aiResult.isMatch /\ heuristicScore < 50
                 THEN "REJECTED"
                 ELSE "REVIEW"

determineFinalStatusErrorRejects(heuristicScore, aiResult) ==
  IF aiResult # null /\ aiResult.error # NoError
  THEN "REJECTED"
  ELSE IF aiResult = null
  THEN IF heuristicScore > 100 THEN "REVIEW"
       ELSE IF heuristicScore < AI_CONFIG.minScore THEN "REJECTED"
       ELSE "REVIEW"
  ELSE IF aiResult.confidence >= 80
       THEN (IF aiResult.isMatch THEN "CONFIRMED" ELSE "REJECTED")
       ELSE IF aiResult.confidence >= 60 /\ aiResult.isMatch /\ heuristicScore >= 85
            THEN "CONFIRMED"
            ELSE IF aiResult.confidence >= 60 /\ ~aiResult.isMatch /\ heuristicScore < 50
                 THEN "REJECTED"
                 ELSE "REVIEW"

determineFinalStatus(heuristicScore, aiResult) ==
  IF aiResult = null \/ aiResult.error # NoError
  THEN IF heuristicScore > 100 THEN "REVIEW"
       ELSE IF heuristicScore < AI_CONFIG.minScore THEN "REJECTED"
       ELSE "REVIEW"
  ELSE IF aiResult.confidence >= 80
       THEN (IF aiResult.isMatch THEN "CONFIRMED" ELSE "REJECTED")
       ELSE IF aiResult.confidence >= 60 /\ aiResult.isMatch /\ heuristicScore >= 85
            THEN "CONFIRMED"
            ELSE IF aiResult.confidence >= 60 /\ ~aiResult.isMatch /\ heuristicScore < 50
                 THEN "REJECTED"
                 ELSE "REVIEW"

(***************************************************************************)
(* calculateMatchScore (matching.ts).  A candidate row is described by the *)
(* outcome of compareFieldValues for each configured field against the     *)
(* source record (status, similarity in percent) and by whether one of the *)
(* two Website/EmailDomain cross comparisons is an equality.               *)
(***************************************************************************)
FieldNames == <<"Name", "Phone", "Website", "BillingStreet", "BillingCity">>

Cmp(status, similarity) == [status |-> status, similarity |-> similarity]

\* Math.round(points * similarity), similarity given in percent
RoundPoints(points, similarity) == (points * similarity + 50) \div 100

FieldScore(field, cmp) ==
  IF cmp.status = "none" THEN 0
  ELSE IF field = "Name"
       THEN (IF cmp.status = "exact" THEN MATCHING.fields.Name.exact
                                     ELSE MATCHING.fields.Name.alike)
       ELSE RoundPoints(MATCHING.fields[field], cmp.similarity)

RECURSIVE SumFields(_, _)
SumFields(row, k) ==
  IF k = 0 THEN 0
  ELSE SumFields(row, k - 1) + FieldScore(FieldNames[k], row[FieldNames[k]])

calculateMatchScoreBonusTwice(row) ==
  SumFields(row, Len(FieldNames))
    + (IF row.cross \in {"websiteToEmail", "both"} THEN 25 ELSE 0)
    + (IF row.cross \in {"emailToWebsite", "both"} THEN 25 ELSE 0)

\* row.cross tells which of the two cross comparisons are equalities: none,
\* websiteToEmail (source website = target email domain), emailToWebsite
\* (source email domain = target website), or both
calculateMatchScore(row) ==
  SumFields(row, Len(FieldNames))
    + (IF row.cross \in {"websiteToEmail", "both"} THEN 25
       ELSE IF row.cross \in {"emailToWebsite", "both"} THEN 25
       ELSE 0)

\* matchedFields.push(...) of the field loop: the fields with a status other
\* than none, in the order of MATCHING.fields
RECURSIVE MatchedStandardFields(_, _)
MatchedStandardFields(row, k) ==
  IF k = 0 THEN <<>>
  ELSE MatchedStandardFields(row, k - 1)
         \o (IF row[FieldNames[k]].status = "none" THEN <<>> ELSE <<FieldNames[k]>>)

\* matchedFields of calculateMatchScore: the matched fields and the entry of
\* the cross-match that added the bonus
MatchedFields(row) ==
  MatchedStandardFields(row, Len(FieldNames))
    \o (IF row.cross \in {"websiteToEmail", "both"}
        THEN <<"Website<->EmailDomain (cross-match)">>
        ELSE IF row.cross \in {"emailToWebsite", "both"}
        THEN <<"EmailDomain<->Website (cross-match)">>
        ELSE <<>>)

Row(name, phone, website, street, city, cross) ==
  [Name |-> name, Phone |-> phone, Website |-> website,
   BillingStreet |-> street, BillingCity |-> city, cross |-> cross]

NoneCmp == Cmp("none", 0)

ExactCmp == Cmp("exact", 100)

\* nothing comparable: score 0
RowUnrelated == Row(NoneCmp, NoneCmp, NoneCmp, NoneCmp, NoneCmp, "none")
\* same city only: score 10, below the ambiguous band
RowSameCity == Row(NoneCmp, NoneCmp, NoneCmp, NoneCmp, ExactCmp, "none")
\* similar name: score 50, inside the ambiguous band
RowAlikeName == Row(Cmp("partial", 70), NoneCmp, NoneCmp, NoneCmp, NoneCmp, "none")
\* same name and phone: score 115, above the ambiguous band
RowNamePhone == Row(ExactCmp, ExactCmp, NoneCmp, NoneCmp, NoneCmp, "none")

\* the candidate lists one batched search returns for one source record
CandLists ==
  { <<>>, <<RowUnrelated>>, <<RowSameCity>>, <<RowAlikeName>>, <<RowNamePhone>>,
    <<RowAlikeName, RowAlikeName>> }

(***************************************************************************)
(* The judge's response text (route.ts).  A response is a sequence of      *)
(* lines, a line a sequence of comma-separated tokens.  A token is a       *)
(* numeral ("90"), a numeral followed by a percent sign ("90%"), or a word *)
(* without digits ("YES", "junk").                                         *)
(***************************************************************************)
Num(n) == [k |-> "num", n |-> n, w |-> ""]

Pct(n) == [k |-> "pct", n |-> n, w |-> ""]

Word(w) == [k |-> "word", n |-> 0, w |-> w]

NaN == 0 - 1

\* parseInt: the leading digits of the token, NaN when it starts with none
parseInt(tok) == IF tok.k = "word" THEN NaN ELSE tok.n

\* String.toUpperCase of a decision token
toUpperCase(tok) ==
  IF tok.k # "word" THEN "0"
  ELSE IF tok.w = "yes" THEN "YES"
  ELSE IF tok.w = "y" THEN "Y"
  ELSE IF tok.w = "no" THEN "NO"
  ELSE tok.w

\* .replace(/^[^0-9]+/gm, ''): at the start of each line everything before
\* the first digit is removed (code fences, prose, empty tokens); a line
\* holding no digit is removed whole and leaves no part behind
RECURSIVE StripLeading(_)
StripLeading(line) ==
  IF line = <<>> THEN <<>>
  ELSE IF Head(line).k = "word" THEN StripLeading(Tail(line))
  ELSE line

\* the loop iteration without the foundIds check: a later line with the
\* same id replaces the verdict of the earlier one
ParseLineKeepLast(st, line, expectedIds) ==
  LET parts == StripLeading(line)
      id == parseInt(parts[1])
      decision == toUpperCase(parts[2])
      isMatch == decision = "YES" \/ decision = "Y"
      parsedConf == parseInt(parts[3])
      hasConf == parsedConf # NaN /\ parsedConf >= 0 /\ parsedConf <= 100
      confidence == IF Len(parts) < 3 THEN 50
                    ELSE IF hasConf THEN parsedConf
                    ELSE IF isMatch THEN 70 ELSE 85
      reasoning == IF Len(parts) < 3 THEN "No reason provided"
                   ELSE IF hasConf /\ Len(parts) < 4 THEN "No reason provided"
                   ELSE "text"
      entry == [id |-> id, isMatch |-> isMatch,
                confidence |-> confidence, reasoning |-> reasoning]
  IN IF Len(parts) < 2 THEN st
     ELSE IF id = NaN THEN st
     ELSE IF id \notin expectedIds THEN st
     ELSE IF id \in st.foundIds
     THEN [results |-> [i \in DOMAIN st.results |->
                          IF st.results[i].id = id THEN entry ELSE st.results[i]],
           foundIds |-> st.foundIds]
     ELSE [results |-> Append(st.results, entry),
           foundIds |-> st.foundIds \cup {id}]

\* one iteration of the "for (const line of lines)" loop of parseCSVResponse
ParseLine(st, line, expectedIds) ==
  LET parts == StripLeading(line)
      id == parseInt(parts[1])
      decision == toUpperCase(parts[2])
      isMatch == decision = "YES" \/ decision = "Y"
      parsedConf == parseInt(parts[3])
      hasConf == parsedConf # NaN /\ parsedConf >= 0 /\ parsedConf <= 100
      confidence == IF Len(parts) < 3 THEN 50
                    ELSE IF hasConf THEN parsedConf
                    ELSE IF isMatch THEN 70 ELSE 85
      reasoning == IF Len(parts) < 3 THEN "No reason provided"
                   ELSE IF hasConf /\ Len(parts) < 4 THEN "No reason provided"
                   ELSE "text"
  IN IF Len(parts) < 2 THEN st
     ELSE IF id = NaN THEN st
     ELSE IF id \notin expectedIds THEN st
     ELSE IF id \in st.foundIds THEN st
     ELSE [results |-> Append(st.results,
                         [id |-> id, isMatch |-> isMatch,
                          confidence |-> confidence, reasoning |-> reasoning]),
           foundIds |-> st.foundIds \cup {id}]

RECURSIVE ParseLines(_, _, _)
ParseLines(st, lines, expectedIds) ==
  IF lines = <<>> THEN st
  ELSE ParseLines(ParseLine(st, Head(lines), expectedIds), Tail(lines), expectedIds)

RECURSIVE AddDefaultsConfident(_, _, _)
AddDefaultsConfident(results, foundIds, pairIds) ==
  IF pairIds = <<>> THEN results
  ELSE AddDefaultsConfident(
         IF Head(pairIds) \in foundIds THEN results
         ELSE Append(results, [id |-> Head(pairIds), isMatch |-> FALSE,
                               confidence |-> 100,
                               reasoning |-> "AI did not return result"]),
         foundIds \cup {Head(pairIds)}, Tail(pairIds))

\* "Add defaults for missing IDs", in the order of the request
RECURSIVE AddDefaults(_, _, _)
AddDefaults(results, foundIds, pairIds) ==
  IF pairIds = <<>> THEN results
  ELSE AddDefaults(
         IF Head(pairIds) \in foundIds THEN results
         ELSE Append(results, [id |-> Head(pairIds), isMatch |-> FALSE,
                               confidence |-> 0,
                               reasoning |-> "AI did not return result"]),
         foundIds \cup {Head(pairIds)}, Tail(pairIds))

\* results.sort((a, b) => a.id - b.id)
RECURSIVE InsertById(_, _)
InsertById(sorted, r) ==
  IF sorted = <<>> THEN <<r>>
  ELSE IF r.id < Head(sorted).id THEN <<r>> \o sorted
  ELSE <<Head(sorted)>> \o InsertById(Tail(sorted), r)

RECURSIVE SortById(_)
SortById(results) ==
  IF results = <<>> THEN <<>>
  ELSE InsertById(SortById(SubSeq(results, 1, Len(results) - 1)), results[Len(results)])

SeqRange(s) == { s[i] : i \in 1..Len(s) }

parseCSVResponseNoDefaults(response, pairIds) ==
  LET st == ParseLines([results |-> <<>>, foundIds |-> {}], response, SeqRange(pairIds))
  IN SortById(st.results)

parseCSVResponse(response, pairIds) ==
  LET st == ParseLines([results |-> <<>>, foundIds |-> {}], response, SeqRange(pairIds))
  IN SortById(AddDefaults(st.results, st.foundIds, pairIds))

(***************************************************************************)
(* POST /api/ai/validate (route.ts) and sendBatchRequest                   *)
(* (ai-validation.ts).  A judge call ends in one of four ways:             *)
(*   networkError  the fetch of sendBatchRequest rejects                   *)
(*   unreachable   the route's fetch of the judge rejects: status 500      *)
(*   non2xx        the judge answers with an error status: status 503      *)
(*   text          the judge answers with a response text: status 200      *)
(***************************************************************************)
FailureKinds == {"networkError", "unreachable", "non2xx"}

POST(pairIds, call) ==
  IF call.kind = "text"
  THEN [ok |-> TRUE, results |-> parseCSVResponse(call.response, pairIds)]
  ELSE [ok |-> FALSE, results |-> <<>>]

\* the Map built by "for (const result of data.results) resultMap.set(...)"
ResultsToMap(results) ==
  [id \in { results[i].id : i \in 1..Len(results) } |->
     LET i == CHOOSE j \in 1..Len(results) :
                /\ results[j].id = id
                /\ \A l \in (j + 1)..Len(results) : results[l].id # id
     IN AIValidationResult(results[i].isMatch, results[i].confidence,
                           results[i].reasoning, NoError)]

ErrorText(call) ==
  IF call.kind = "networkError" THEN "TypeError: Failed to fetch"
  ELSE "Error: AI request failed"

sendBatchRequestDropOnError(pairIds, call) ==
  LET response == POST(pairIds, call)
  IN IF call.kind # "networkError" /\ response.ok
     THEN ResultsToMap(response.results)
     ELSE [id \in {} |-> null]

sendBatchRequest(pairIds, call) ==
  LET response == POST(pairIds, call)
  IN IF call.kind # "networkError" /\ response.ok
     THEN ResultsToMap(response.results)
     ELSE [id \in SeqRange(pairIds) |->
             AIValidationResult(FALSE, 0, "AI validation failed", ErrorText(call))]

\* chunkArray whose next chunk starts at i + size - 1
RECURSIVE chunkArrayOverlap(_, _)
chunkArrayOverlap(array, size) ==
  IF array = <<>> THEN <<>>
  ELSE IF Len(array) <= size THEN <<array>>
  ELSE <<SubSeq(array, 1, size)>> \o chunkArrayOverlap(SubSeq(array, size, Len(array)), size)

\* chunkArray(array, size)
RECURSIVE chunkArray(_, _)
chunkArray(array, size) ==
  IF array = <<>> THEN <<>>
  ELSE IF Len(array) <= size THEN <<array>>
  ELSE <<SubSeq(array, 1, size)>> \o chunkArray(SubSeq(array, size + 1, Len(array)), size)

\* "for (const [id, result] of batchResult) resultMap.set(id, result)"
MergeInto(resultMap, batchMap) ==
  [id \in DOMAIN resultMap \cup DOMAIN batchMap |->
     IF id \in DOMAIN batchMap THEN batchMap[id] ELSE resultMap[id]]

(***************************************************************************)
(* processSourceChunk (find-matches-chunked.ts): the synchronous parts.    *)
(***************************************************************************)
\* the candidate loop with ">=": the last of the highest-scoring candidates
RECURSIVE BestFromLastWins(_, _, _)
BestFromLastWins(cands, k, best) ==
  IF k > Len(cands) THEN best
  ELSE LET score == calculateMatchScore(cands[k])
       IN BestFromLastWins(cands, k + 1,
                           IF score >= best.score /\ score > 0
                           THEN [match |-> k, score |-> score] ELSE best)

\* the "for (const dimRow of dimCandidates)" loop: first index k with the
\* highest score above 0, found with ">" (0 stands for no match kept)
RECURSIVE BestFrom(_, _, _)
BestFrom(cands, k, best) ==
  IF k > Len(cands) THEN best
  ELSE LET score == calculateMatchScore(cands[k])
       IN BestFrom(cands, k + 1,
                   IF score > best.score THEN [match |-> k, score |-> score]
                                         ELSE best)

BestMatch(cands) == BestFrom(cands, 1, [match |-> 0, score |-> 0])

\* pendingMatches: one entry per source account, in page order
ScoreAll(rows, dimMatchesMap, sfMatchesMap) ==
  [i \in 1..Len(rows) |->
     LET id == i - 1
         dim == BestMatch(dimMatchesMap[id])
         sf == BestMatch(sfMatchesMap[id])
     IN [index |-> id, sourceAccount |-> rows[i],
         dimensionsMatch |-> dim.match, salesforceMatch |-> sf.match,
         dimensionsScore |-> dim.score, salesforceScore |-> sf.score]]

\* pair building that checks Salesforce before Dimensions
RECURSIVE BuildPairsSalesforceFirst(_, _, _)
BuildPairsSalesforceFirst(pending, k, aiPairs) ==
  IF k > Len(pending) THEN aiPairs
  ELSE LET pm == pending[k]
           withSf ==
             IF pm.salesforceMatch # 0 /\ shouldValidateWithAI(pm.salesforceScore)
             THEN Append(aiPairs, [id |-> Len(aiPairs) + 1, index |-> pm.index,
                                   targetType |-> "salesforce",
                                   score |-> pm.salesforceScore])
             ELSE aiPairs
           withDim ==
             IF pm.dimensionsMatch # 0 /\ shouldValidateWithAI(pm.dimensionsScore)
             THEN Append(withSf, [id |-> Len(withSf) + 1, index |-> pm.index,
                                  targetType |-> "dimensions",
                                  score |-> pm.dimensionsScore])
             ELSE withSf
       IN BuildPairsSalesforceFirst(pending, k + 1, withDim)

\* "Build AI validation pairs": aiPairs with ids from pairId = 1
RECURSIVE BuildPairs(_, _, _)
BuildPairs(pending, k, aiPairs) ==
  IF k > Len(pending) THEN aiPairs
  ELSE LET pm == pending[k]
           withDim ==
             IF pm.dimensionsMatch # 0 /\ shouldValidateWithAI(pm.dimensionsScore)
             THEN Append(aiPairs, [id |-> Len(aiPairs) + 1, index |-> pm.index,
                                   targetType |-> "dimensions",
                                   score |-> pm.dimensionsScore])
             ELSE aiPairs
           withSf ==
             IF pm.salesforceMatch # 0 /\ shouldValidateWithAI(pm.salesforceScore)
             THEN Append(withDim, [id |-> Len(withDim) + 1, index |-> pm.index,
                                   targetType |-> "salesforce",
                                   score |-> pm.salesforceScore])
             ELSE withDim
       IN BuildPairs(pending, k + 1, withSf)

\* pairIdMap: key (index, type) -> pair id
PairIdMap(pairs) ==
  [key \in { <<pairs[i].index, pairs[i].targetType>> : i \in 1..Len(pairs) } |->
     (CHOOSE i \in 1..Len(pairs) : <<pairs[i].index, pairs[i].targetType>> = key)]

\* a lookup that falls back to the pair of the other system of the record
LookupAIAnySystem(idMap, results, index, type) ==
  LET other == IF type = "dimensions" THEN "salesforce" ELSE "dimensions"
      key == IF <<index, type>> \in DOMAIN idMap THEN <<index, type>>
             ELSE <<index, other>>
  IN IF key \in DOMAIN idMap /\ idMap[key] \in DOMAIN results
     THEN results[idMap[key]]
     ELSE null

\* "dimPairId ? aiResults.get(dimPairId) || null : null"
LookupAI(idMap, results, index, type) ==
  IF <<index, type>> \in DOMAIN idMap /\ idMap[<<index, type>>] \in DOMAIN results
  THEN results[idMap[<<index, type>>]]
  ELSE null

MatchedAccountRejectedPresent(pm, idMap, results) ==
  LET dimAI == LookupAI(idMap, results, pm.index, "dimensions")
      sfAI == LookupAI(idMap, results, pm.index, "salesforce")
      dimStatus == IF pm.dimensionsMatch # 0
                   THEN determineFinalStatus(pm.dimensionsScore, dimAI) ELSE "NEW"
      sfStatus == IF pm.salesforceMatch # 0
                  THEN determineFinalStatus(pm.salesforceScore, sfAI) ELSE "NEW"
      hasDim == dimStatus # "NEW"
      hasSf == sfStatus # "NEW"
  IN [sourceAccount |-> pm.sourceAccount,
      dimensionsMatch |-> pm.dimensionsMatch, salesforceMatch |-> pm.salesforceMatch,
      dimensionsScore |-> pm.dimensionsScore, salesforceScore |-> pm.salesforceScore,
      dimensionsAI |-> dimAI, salesforceAI |-> sfAI,
      dimensionsStatus |-> dimStatus, salesforceStatus |-> sfStatus,
      finalStatus |-> IF hasDim /\ hasSf THEN "BOTH"
                      ELSE IF hasDim THEN "DIM_ONLY"
                      ELSE IF hasSf THEN "SF_ONLY"
                      ELSE "NEW"]

MatchedAccount(pm, idMap, results) ==
  LET dimAI == LookupAI(idMap, results, pm.index, "dimensions")
      sfAI == LookupAI(idMap, results, pm.index, "salesforce")
      dimStatus == IF pm.dimensionsMatch # 0
                   THEN determineFinalStatus(pm.dimensionsScore, dimAI) ELSE "NEW"
      sfStatus == IF pm.salesforceMatch # 0
                  THEN determineFinalStatus(pm.salesforceScore, sfAI) ELSE "NEW"
      hasDim == dimStatus = "CONFIRMED" \/ dimStatus = "REVIEW"
      hasSf == sfStatus = "CONFIRMED" \/ sfStatus = "REVIEW"
  IN [sourceAccount |-> pm.sourceAccount,
      dimensionsMatch |-> pm.dimensionsMatch, salesforceMatch |-> pm.salesforceMatch,
      dimensionsScore |-> pm.dimensionsScore, salesforceScore |-> pm.salesforceScore,
      dimensionsAI |-> dimAI, salesforceAI |-> sfAI,
      dimensionsStatus |-> dimStatus, salesforceStatus |-> sfStatus,
      finalStatus |-> IF hasDim /\ hasSf THEN "BOTH"
                      ELSE IF hasDim THEN "DIM_ONLY"
                      ELSE IF hasSf THEN "SF_ONLY"
                      ELSE "NEW"]

BumpBothAlsoDimOnly(stats, finalStatus) ==
  IF finalStatus = "BOTH" THEN [stats EXCEPT !.both = @ + 1, !.dimOnly = @ + 1]
  ELSE IF finalStatus = "DIM_ONLY" THEN [stats EXCEPT !.dimOnly = @ + 1]
  ELSE IF finalStatus = "SF_ONLY" THEN [stats EXCEPT !.sfOnly = @ + 1]
  ELSE [stats EXCEPT !.new = @ + 1]

\* the "for (const pm of pendingMatches)" loop that fills matches and stats
Bump(stats, finalStatus) ==
  IF finalStatus = "BOTH" THEN [stats EXCEPT !.both = @ + 1]
  ELSE IF finalStatus = "DIM_ONLY" THEN [stats EXCEPT !.dimOnly = @ + 1]
  ELSE IF finalStatus = "SF_ONLY" THEN [stats EXCEPT !.sfOnly = @ + 1]
  ELSE [stats EXCEPT !.new = @ + 1]

RECURSIVE MapLoop(_, _, _, _, _)
MapLoop(pending, idMap, results, k, acc) ==
  IF k > Len(pending) THEN acc
  ELSE LET m == MatchedAccount(pending[k], idMap, results)
       IN MapLoop(pending, idMap, results, k + 1,
                  [matches |-> Append(acc.matches, m),
                   stats |-> Bump(acc.stats, m.finalStatus)])

Stats(aiValidated) ==
  [both |-> 0, dimOnly |-> 0, sfOnly |-> 0, new |-> 0, aiValidated |-> aiValidated]

BuildMatchesSkipNew(pending, idMap, results, pairs) ==
  LET r == MapLoop(pending, idMap, results, 1,
                   [matches |-> <<>>, stats |-> Stats(Len(pairs))])
  IN [r EXCEPT !.matches =
        SelectSeq(r.matches, LAMBDA m : m.dimensionsMatch # 0 \/ m.salesforceMatch # 0)]

BuildMatchesValidatedFirst(pending, idMap, results, pairs) ==
  LET r == MapLoop(pending, idMap, results, 1,
                   [matches |-> <<>>, stats |-> Stats(Len(pairs))])
      validated(m) == m.dimensionsAI # null \/ m.salesforceAI # null
  IN [r EXCEPT !.matches =
        SelectSeq(r.matches, validated) \o SelectSeq(r.matches, LAMBDA m : ~validated(m))]

BuildMatches(pending, idMap, results, pairs) ==
  MapLoop(pending, idMap, results, 1, [matches |-> <<>>, stats |-> Stats(Len(pairs))])

\* the three return statements of processSourceChunk
ReturnNoMore(total) ==
  [matches |-> <<>>, totalSourceAccounts |-> total, processedCount |-> 0,
   hasMore |-> FALSE, stats |-> Stats(0)]

ReturnEmptyPage(total, offset) ==
  [matches |-> <<>>, totalSourceAccounts |-> total, processedCount |-> 0,
   hasMore |-> offset < total, stats |-> Stats(0)]

ReturnCompleteAlwaysMore(built, total, offset, rows) ==
  [matches |-> built.matches, totalSourceAccounts |-> total,
   processedCount |-> Len(rows), hasMore |-> offset < total, stats |-> built.stats]

ReturnComplete(built, total, offset, rows) ==
  [matches |-> built.matches, totalSourceAccounts |-> total,
   processedCount |-> Len(rows), hasMore |-> (offset + Len(rows)) < total,
   stats |-> built.stats]

\* the value of result before processSourceChunk has returned
NoResult ==
  [matches |-> <<>>, totalSourceAccounts |-> 0, processedCount |-> 0,
   hasMore |-> FALSE, stats |-> Stats(0)]

(***************************************************************************)
(* The record store (postgres-client.ts).                                  *)
(***************************************************************************)
\* SELECT ... WHERE source = 'source' ORDER BY id LIMIT limit OFFSET offset,
\* over a store holding source rows 1..count
getSourceAccountsChunk(count, limit, offset) ==
  LET n == IF count - offset < limit THEN count - offset ELSE limit
  IN [i \in 1..(IF n < 0 THEN 0 ELSE n) |-> offset + i]

\* findPotentialMatchesBatch: the rows of the query grouped by source id, or,
\* when the query throws, the empty Map of the catch block (every get(id)
\* is then undefined and read as [])
findPotentialMatchesBatch(ids, ok, found) ==
  IF ok THEN found ELSE [id \in ids |-> <<>>]

(***************************************************************************)
(* State of one processSourceChunk run.                                    *)
(*   pc      the await the run is suspended at: awaitCount, awaitPage,     *)
(*           awaitDim, awaitSf, awaitAI; done after a return, threw after  *)
(*           an exception left processSourceChunk                          *)
(*   thrown  the query whose error left processSourceChunk, or none        *)
(*   store   the number of source rows in the accounts table               *)
(*   req     per sub-batch of validateBatchWithAI: queued, inflight, done, *)
(*           or hung (the judge will never answer this call)               *)
(* searchErrors, pageRead, callOutcome, unanswered and completed record    *)
(* what happened (the systems whose batched search threw, whether the page *)
(* read returned, how the call of each sub-batch ended, the pair ids whose *)
(* sub-batch response held no usable line, the sub-batches in completion   *)
(* order); no action reads them.                                           *)
(* queries is the sequence of candidate queries the run has sent to the    *)
(* store.  requestedIds, csvText and parsed are a call of parseCSVResponse *)
(* (SpecParse); sourceAccount, targetAccount and matchedFields are the     *)
(* accounts and the matched fields of a calculateMatchScore call           *)
(* (SpecCross).                                                            *)
(* runs holds, in SpecConcurrent alone, the local variables of each of two *)
(* processSourceChunk runs that interleave.                                *)
(* normalizer, input, country, normalized and renormalized are a           *)
(* normalizer of normalize.ts, its arguments, its value and its value on   *)
(* that value, used by SpecNormalize alone.                                *)
(* fieldComparisons and totalScore are the argument and the value of one   *)
(* calculateMatchScore call, used by SpecScore alone.                      *)
(* heuristicScore, aiResult and status are the arguments and the value of  *)
(* one determineFinalStatus call, used by SpecStatus alone.                *)
(***************************************************************************)
VARIABLES pc, thrown, store, chunkSize, startIndex, enableAI,
          totalSourceAccounts, sourceAccountsRows, pageRead,
          dimMatchesMap, searchErrors, pendingMatches, aiPairs,
          req, batchResult, groupStart, resultMap,
          callOutcome, unanswered, completed,
          aiResults, result,
          heuristicScore, aiResult, status,
          fieldComparisons, totalScore,
          normalizer, input, country, normalized, renormalized,
          runs, queries,
          requestedIds, csvText, parsed,
          sourceAccount, targetAccount, matchedFields

inputVars == <<chunkSize, startIndex, enableAI>>

pageVars == <<totalSourceAccounts, sourceAccountsRows, pageRead>>

aiVars == <<req, batchResult, groupStart, resultMap, callOutcome, unanswered,
            completed, aiResults>>

statusVars == <<heuristicScore, aiResult, status>>

scoreVars == <<fieldComparisons, totalScore>>

normVars == <<normalizer, input, country, normalized, renormalized>>

parseVars == <<requestedIds, csvText, parsed>>

accountVars == <<sourceAccount, targetAccount, matchedFields>>

vars == <<pc, thrown, store, inputVars, pageVars, dimMatchesMap, searchErrors,
          pendingMatches, aiPairs, aiVars, result, statusVars, scoreVars, normVars, runs, queries, parseVars, accountVars>>

EmptyMap == [id \in {} |-> null]

PairIds(pairs) == [i \in 1..Len(pairs) |-> pairs[i].id]

\* batches = chunkArray(pairs, BATCH_SIZE), as sequences of pair ids
Batches == chunkArray(PairIds(aiPairs), BATCH_SIZE)

\* batches.slice(i, i + PARALLEL_BATCHES), as batch numbers from 1
Group(first) ==
  { b \in 1..Len(Batches) : b >= first /\ b < first + PARALLEL_BATCHES }

\* no determineFinalStatus call of SpecStatus is in progress
StatusIdle ==
  /\ heuristicScore = 0
  /\ aiResult = null
  /\ status = "idle"

\* no calculateMatchScore call of SpecScore is in progress
ScoreIdle ==
  /\ fieldComparisons = RowUnrelated
  /\ totalScore = 0

\* no normalizer call of SpecNormalize is in progress
NormIdle ==
  /\ normalizer = "none"
  /\ input = <<>>
  /\ country = "undefined"
  /\ normalized = <<>>
  /\ renormalized = <<>>

\* no parseCSVResponse call of SpecParse is in progress
ParseIdle ==
  /\ requestedIds = <<>>
  /\ csvText = <<>>
  /\ parsed = <<>>

\* an account with no Website, Email or EmailDomain
EmptyAccount == [Website |-> <<>>, Email |-> <<>>, EmailDomain |-> <<>>]

\* no calculateMatchScore call of SpecCross is in progress
AccountIdle ==
  /\ sourceAccount = EmptyAccount
  /\ targetAccount = EmptyAccount
  /\ matchedFields = <<>>

\* the query of one findPotentialMatchesBatch call: the search terms of all
\* source accounts of the page and the target source
Query(targetSource, rows) ==
  [targetSource |-> targetSource, ids |-> { i - 1 : i \in 1..Len(rows) }]

\* a search that sends one query per source account
SearchQueriesPerAccount(targetSource, rows) ==
  [i \in 1..Len(rows) |-> [targetSource |-> targetSource, ids |-> {i - 1}]]

\* the queries one findPotentialMatchesBatch call sends: one this.query
SearchQueries(targetSource, rows) == <<Query(targetSource, rows)>>

\* the queries sent when both searches of a page have been started
BothQueries(rows) ==
  SearchQueries("dimensions", rows) \o SearchQueries("salesforce", rows)

\* validateBatchWithAI has not been called
AIIdle ==
  /\ req = <<>>
  /\ batchResult = <<>>
  /\ groupStart = 1
  /\ resultMap = EmptyMap
  /\ callOutcome = <<>>
  /\ unanswered = {}
  /\ completed = <<>>
  /\ aiResults = EmptyMap

Init ==
  /\ pc = "awaitCount"
  /\ thrown = "none"
  /\ store \in 0..MaxStore
  /\ chunkSize \in 0..MaxChunk
  /\ startIndex \in 0..MaxChunk
  /\ enableAI \in BOOLEAN
  /\ totalSourceAccounts = 0
  /\ sourceAccountsRows = <<>>
  /\ pageRead = FALSE
  /\ dimMatchesMap = <<>>
  /\ searchErrors = {}
  /\ pendingMatches = <<>>
  /\ aiPairs = <<>>
  /\ AIIdle
  /\ result = NoResult
  /\ StatusIdle
  /\ ScoreIdle
  /\ NormIdle
  /\ runs = <<>>
  /\ queries = <<>>
  /\ ParseIdle
  /\ AccountIdle

\* clearAccountsBySource('source'), issued by another part of the application
\* while the run is suspended between its count read and its page read
ClearSourceAccounts ==
  /\ pc = "awaitPage"
  /\ store > 0
  /\ store' = 0
  /\ UNCHANGED <<pc, thrown, inputVars, pageVars, dimMatchesMap, searchErrors,
                 pendingMatches, aiPairs, aiVars, result, statusVars, scoreVars, normVars, runs, queries, parseVars, accountVars>>

\* await client.getTotalSourceCount() and the first return
GetTotalSourceCount ==
  /\ pc = "awaitCount"
  /\ \E ok \in BOOLEAN :
       IF ~ok
       THEN /\ pc' = "threw"
            /\ thrown' = "getTotalSourceCount"
            /\ UNCHANGED <<totalSourceAccounts, result>>
       ELSE /\ totalSourceAccounts' = store
            /\ IF store = 0 \/ startIndex >= store
               THEN /\ result' = ReturnNoMore(store)
                    /\ pc' = "done"
               ELSE /\ pc' = "awaitPage"
                    /\ UNCHANGED result
            /\ UNCHANGED thrown
  /\ UNCHANGED <<store, inputVars, sourceAccountsRows, pageRead, dimMatchesMap,
                 searchErrors, pendingMatches, aiPairs, aiVars, statusVars, scoreVars, normVars, runs, queries, parseVars, accountVars>>

\* await client.getSourceAccountsChunk(chunkSize, startIndex), the second
\* return and, for a page with records, the call of the Dimensions search
GetSourceAccountsChunk ==
  /\ pc = "awaitPage"
  /\ \E ok \in BOOLEAN :
       IF ~ok
       THEN /\ pc' = "threw"
            /\ thrown' = "getSourceAccountsChunk"
            /\ UNCHANGED <<sourceAccountsRows, pageRead, result, queries>>
       ELSE LET rows == getSourceAccountsChunk(store, chunkSize, startIndex)
            IN /\ sourceAccountsRows' = rows
               /\ pageRead' = TRUE
               /\ IF Len(rows) = 0
                  THEN /\ result' = ReturnEmptyPage(totalSourceAccounts, startIndex)
                       /\ pc' = "done"
                       /\ UNCHANGED queries
                  ELSE /\ pc' = "awaitDim"
                       /\ queries' = queries \o SearchQueries("dimensions", rows)
                       /\ UNCHANGED result
               /\ UNCHANGED thrown
  /\ UNCHANGED <<store, inputVars, totalSourceAccounts, dimMatchesMap,
                 searchErrors, pendingMatches, aiPairs, aiVars, statusVars,
                 scoreVars, normVars, runs, parseVars, accountVars>>

SourceIds == { i - 1 : i \in 1..Len(sourceAccountsRows) }

\* await client.findPotentialMatchesBatch(..., 'dimensions', 30) and the
\* call of the Salesforce search
FindDimensions ==
  /\ pc = "awaitDim"
  /\ \/ /\ \E found \in [SourceIds -> CandLists] :
             dimMatchesMap' = findPotentialMatchesBatch(SourceIds, TRUE, found)
        /\ UNCHANGED searchErrors
     \/ /\ dimMatchesMap' = findPotentialMatchesBatch(SourceIds, FALSE, <<>>)
        /\ searchErrors' = searchErrors \cup {"dimensions"}
  /\ pc' = "awaitSf"
  /\ queries' = queries \o SearchQueries("salesforce", sourceAccountsRows)
  /\ UNCHANGED <<thrown, store, inputVars, pageVars, pendingMatches, aiPairs,
                 aiVars, result, statusVars, scoreVars, normVars, runs,
                 parseVars, accountVars>>

\* validateBatchWithAI with one Promise.all over all batches
FirstGroupAll(pairs) ==
  LET batches == chunkArray(PairIds(pairs), BATCH_SIZE)
  IN [req |-> [b \in 1..Len(batches) |-> "inflight"],
      batchResult |-> [b \in 1..Len(batches) |-> EmptyMap],
      callOutcome |-> [b \in 1..Len(batches) |-> "pending"]]

\* the first group of sendBatchRequest calls of validateBatchWithAI(pairs)
FirstGroup(pairs) ==
  LET batches == chunkArray(PairIds(pairs), BATCH_SIZE)
  IN [req |-> [b \in 1..Len(batches) |->
                 IF b < 1 + PARALLEL_BATCHES THEN "inflight" ELSE "queued"],
      batchResult |-> [b \in 1..Len(batches) |-> EmptyMap],
      callOutcome |-> [b \in 1..Len(batches) |-> "pending"]]

\* what follows the second search up to the next await: scoring, pair
\* building, and either the first group of sendBatchRequest calls or, with
\* nothing to validate, the result
Scored(sfMatchesMap) ==
  LET pending == ScoreAll(sourceAccountsRows, dimMatchesMap, sfMatchesMap)
      pairs == BuildPairs(pending, 1, <<>>)
  IN /\ pendingMatches' = pending
     /\ aiPairs' = pairs
     /\ IF enableAI /\ Len(pairs) > 0
        THEN /\ req' = FirstGroup(pairs).req
             /\ batchResult' = FirstGroup(pairs).batchResult
             /\ callOutcome' = FirstGroup(pairs).callOutcome
             /\ pc' = "awaitAI"
             /\ UNCHANGED <<groupStart, resultMap, unanswered, completed,
                            aiResults, result>>
        ELSE /\ result' = ReturnComplete(
                            BuildMatches(pending, PairIdMap(pairs), EmptyMap, pairs),
                            totalSourceAccounts, startIndex, sourceAccountsRows)
             /\ pc' = "done"
             /\ UNCHANGED aiVars

\* await client.findPotentialMatchesBatch(..., 'salesforce', 30)
FindSalesforce ==
  /\ pc = "awaitSf"
  /\ \/ /\ \E found \in [SourceIds -> CandLists] :
             Scored(findPotentialMatchesBatch(SourceIds, TRUE, found))
        /\ UNCHANGED searchErrors
     \/ /\ Scored(findPotentialMatchesBatch(SourceIds, FALSE, <<>>))
        /\ searchErrors' = searchErrors \cup {"salesforce"}
  /\ UNCHANGED <<thrown, store, inputVars, pageVars, dimMatchesMap, statusVars, scoreVars, normVars, runs, queries, parseVars, accountVars>>

(***************************************************************************)
(* Judge responses.                                                        *)
(***************************************************************************)
\* an id no request of the run carries
UnknownId == MaxPairs + 93

AnswerLine(id, decision, confidence) ==
  <<Num(id), Word(decision), Num(confidence), Word("reason")>>

Reverse(s) == [i \in 1..Len(s) |-> s[Len(s) + 1 - i]]

\* the responses a judge gives to a prompt for the pairs ids: a line per id
\* (all YES or all NO with confidence 90, all YES with confidence 65), the
\* same with the first line missing, and a fenced response in reverse order
TypicalResponses(ids) ==
  LET all(decision, confidence) ==
        [i \in 1..Len(ids) |-> AnswerLine(ids[i], decision, confidence)]
  IN { all("YES", 90), all("NO", 90), all("YES", 65),
       Tail(all("NO", 90)),
       <<<<Word("fence")>>>> \o Reverse(all("NO", 90)) \o <<<<Word("fence")>>>> }

\* lines of an unreliable judge: well-formed or prefixed with prose and with
\* no confidence for each requested id, well-formed for an id that was not
\* requested, cut after the id, or prose only
LinesFor(ids) ==
  UNION { { AnswerLine(id, "YES", 90),
            <<Word("junk"), Num(id), Word("no")>> } : id \in SeqRange(ids) }
    \cup { AnswerLine(UnknownId, "YES", 90), <<Num(ids[1])>>, <<Word("junk")>> }

RECURSIVE SeqsUpTo(_, _)
SeqsUpTo(S, n) ==
  IF n = 0 THEN { <<>> }
  ELSE LET shorter == SeqsUpTo(S, n - 1)
       IN shorter \cup { Append(q, x) : q \in shorter, x \in S }

Responses(ids) == SeqsUpTo(LinesFor(ids), MaxLines)

\* the response holds a line that names id and carries a decision
HasUsableLine(response, id) ==
  \E l \in 1..Len(response) :
     LET parts == StripLeading(response[l])
     IN Len(parts) >= 2 /\ parseInt(parts[1]) = id

(***************************************************************************)
(* validateBatchWithAI (ai-validation.ts): the sendBatchRequest calls of   *)
(* one group are in flight together; Promise.all resumes the loop when all *)
(* of them have settled.                                                   *)
(***************************************************************************)
JudgeCompletes(b, call) ==
  /\ pc = "awaitAI"
  /\ req[b] = "inflight"
  /\ req' = [req EXCEPT ![b] = "done"]
  /\ batchResult' = [batchResult EXCEPT ![b] = sendBatchRequest(Batches[b], call)]
  /\ callOutcome' = [callOutcome EXCEPT ![b] = call.kind]
  /\ completed' = Append(completed, b)
  /\ unanswered' =
       IF call.kind = "text"
       THEN unanswered \cup { id \in SeqRange(Batches[b]) :
                                ~HasUsableLine(call.response, id) }
       ELSE unanswered
  /\ UNCHANGED <<pc, thrown, store, inputVars, pageVars, dimMatchesMap,
                 searchErrors, pendingMatches, aiPairs, groupStart, resultMap,
                 aiResults, result, statusVars, scoreVars, normVars, runs, queries, parseVars, accountVars>>

\* the judge answers a sub-batch with a response text
JudgeRespond ==
  /\ pc = "awaitAI"
  /\ \E b \in { c \in DOMAIN req : req[c] = "inflight" } :
       \E response \in TypicalResponses(Batches[b]) :
          JudgeCompletes(b, [kind |-> "text", response |-> response])

\* the same, with the response text of an unreliable judge
JudgeRespondAny ==
  /\ pc = "awaitAI"
  /\ \E b \in { c \in DOMAIN req : req[c] = "inflight" } :
       \E response \in Responses(Batches[b]) :
          JudgeCompletes(b, [kind |-> "text", response |-> response])

\* the call of a sub-batch fails
JudgeFail ==
  /\ pc = "awaitAI"
  /\ \E b \in { c \in DOMAIN req : req[c] = "inflight" } :
       \E kind \in FailureKinds :
          JudgeCompletes(b, [kind |-> kind, response |-> <<>>])

\* the judge stalls on a sub-batch: neither fetch of the call carries a
\* timeout or an abort signal, so the call stays pending
JudgeHang ==
  /\ pc = "awaitAI"
  /\ \E b \in DOMAIN req :
       /\ req[b] = "inflight"
       /\ req' = [req EXCEPT ![b] = "hung"]
  /\ UNCHANGED <<pc, thrown, store, inputVars, pageVars, dimMatchesMap,
                 searchErrors, pendingMatches, aiPairs, batchResult, groupStart,
                 resultMap, callOutcome, unanswered, completed, aiResults,
                 result, statusVars, scoreVars, normVars, runs, queries, parseVars, accountVars>>

\* "for (const batchResult of results)": the maps of a group in batch order
RECURSIVE MergeGroupResults(_, _, _)
MergeGroupResults(map, b, last) ==
  IF b > last THEN map
  ELSE MergeGroupResults(MergeInto(map, batchResult[b]), b + 1, last)

\* Promise.all of the current group resolves: merge, then the next group or,
\* after the last one, the return to processSourceChunk and its result
MergeGroup ==
  /\ pc = "awaitAI"
  /\ \A b \in Group(groupStart) : req[b] = "done"
  /\ LET last == IF groupStart + PARALLEL_BATCHES - 1 < Len(Batches)
                 THEN groupStart + PARALLEL_BATCHES - 1 ELSE Len(Batches)
         merged == MergeGroupResults(resultMap, groupStart, last)
         next == groupStart + PARALLEL_BATCHES
     IN /\ resultMap' = merged
        /\ IF next <= Len(Batches)
           THEN /\ groupStart' = next
                /\ req' = [b \in DOMAIN req |->
                             IF b \in Group(next) THEN "inflight" ELSE req[b]]
                /\ UNCHANGED <<pc, aiResults, result>>
           ELSE /\ aiResults' = merged
                /\ result' = ReturnComplete(
                               BuildMatches(pendingMatches, PairIdMap(aiPairs),
                                            merged, aiPairs),
                               totalSourceAccounts, startIndex, sourceAccountsRows)
                /\ pc' = "done"
                /\ UNCHANGED <<groupStart, req>>
  /\ UNCHANGED <<thrown, store, inputVars, pageVars, dimMatchesMap, searchErrors,
                 pendingMatches, aiPairs, batchResult, callOutcome, unanswered,
                 completed, statusVars, scoreVars, normVars, runs, queries, parseVars, accountVars>>

Next ==
  \/ ClearSourceAccounts
  \/ GetTotalSourceCount
  \/ GetSourceAccountsChunk
  \/ FindDimensions
  \/ FindSalesforce
  \/ JudgeRespond
  \/ JudgeFail
  \/ JudgeHang
  \/ MergeGroup

Spec == Init /\ [][Next]_vars

(***************************************************************************)
(* SpecValidate: a run suspended in validateBatchWithAI, answered by an    *)
(* unreliable judge.  The page holds one source record per two pairs, each *)
(* with a candidate in the ambiguous band in both systems (the last one in *)
(* Dimensions alone when the number of pairs is odd), and at position      *)
(* filler, when that is not 0, one more record without any candidate.      *)
(***************************************************************************)
ValidationPage(n, filler) ==
  LET k == (n + 1) \div 2
      len == IF filler = 0 THEN k ELSE k + 1
      \* the number of the in-band record at page position i, 0 for the filler
      inBand(i) == IF filler = 0 \/ i < filler THEN i
                   ELSE IF i = filler THEN 0 ELSE i - 1
  IN [rows |-> [i \in 1..len |-> i],
      dim |-> [id \in 0..(len - 1) |->
                 IF inBand(id + 1) = 0 THEN <<>> ELSE <<RowAlikeName>>],
      sf |-> [id \in 0..(len - 1) |->
                IF inBand(id + 1) = 0 \/ 2 * inBand(id + 1) > n
                THEN <<>> ELSE <<RowAlikeName>>]]

\* a run suspended in validateBatchWithAI(aiPairs) with n pairs
ValidationStart(n, filler) ==
  LET page == ValidationPage(n, filler)
      pending == ScoreAll(page.rows, page.dim, page.sf)
  IN /\ pc = "awaitAI"
     /\ thrown = "none"
     /\ store = Len(page.rows)
     /\ chunkSize = Len(page.rows)
     /\ startIndex = 0
     /\ enableAI = TRUE
     /\ totalSourceAccounts = Len(page.rows)
     /\ sourceAccountsRows = page.rows
     /\ pageRead = TRUE
     /\ dimMatchesMap = page.dim
     /\ searchErrors = {}
     /\ pendingMatches = pending
     /\ aiPairs = BuildPairs(pending, 1, <<>>)
     /\ req = FirstGroup(BuildPairs(pending, 1, <<>>)).req
     /\ batchResult = FirstGroup(BuildPairs(pending, 1, <<>>)).batchResult
     /\ callOutcome = FirstGroup(BuildPairs(pending, 1, <<>>)).callOutcome
     /\ groupStart = 1
     /\ resultMap = EmptyMap
     /\ unanswered = {}
     /\ completed = <<>>
     /\ aiResults = EmptyMap
     /\ result = NoResult
     /\ StatusIdle
     /\ ScoreIdle
     /\ NormIdle
     /\ runs = <<>>
     /\ queries = BothQueries(page.rows)
     /\ ParseIdle
     /\ AccountIdle

InitValidate ==
  \E n \in 1..MaxPairs : \E filler \in 0..((n + 1) \div 2 + 1) :
     ValidationStart(n, filler)

NextValidate ==
  \/ JudgeRespondAny
  \/ JudgeFail
  \/ JudgeHang
  \/ MergeGroup

SpecValidate == InitValidate /\ [][NextValidate]_vars

(***************************************************************************)
(* SpecStatus: one call of determineFinalStatus.                           *)
(***************************************************************************)
Verdicts ==
  { AIValidationResult(m, c, "text", e) :
      m \in BOOLEAN, c \in 0..100, e \in {NoError, "Error: AI request failed"} }

InitStatus ==
  /\ heuristicScore \in 0..MaxHeuristic
  /\ aiResult \in Verdicts \cup {null}
  /\ status = "idle"
  /\ pc = "done"
  /\ thrown = "none"
  /\ store = 0
  /\ chunkSize = 0
  /\ startIndex = 0
  /\ enableAI = FALSE
  /\ totalSourceAccounts = 0
  /\ sourceAccountsRows = <<>>
  /\ pageRead = FALSE
  /\ dimMatchesMap = <<>>
  /\ searchErrors = {}
  /\ pendingMatches = <<>>
  /\ aiPairs = <<>>
  /\ AIIdle
  /\ result = NoResult
  /\ ScoreIdle
  /\ NormIdle
  /\ runs = <<>>
  /\ queries = <<>>
  /\ ParseIdle
  /\ AccountIdle

Resolve ==
  /\ status = "idle"
  /\ status' = determineFinalStatus(heuristicScore, aiResult)
  /\ UNCHANGED <<pc, thrown, store, inputVars, pageVars, dimMatchesMap,
                 searchErrors, pendingMatches, aiPairs, aiVars, result,
                 heuristicScore, aiResult, scoreVars, normVars, runs, queries, parseVars, accountVars>>

SpecStatus == InitStatus /\ [][Resolve]_vars

(***************************************************************************)
(* Properties of processSourceChunk's result.                              *)
(***************************************************************************)
\* C1: a returned result holds exactly one entry of matches per source record
\* the page read returned (matches.length = processedCount = rows read),
\* records without a candidate in either system included.
MatchesCoverPage ==
  pc = "done" =>
    /\ Len(result.matches) = result.processedCount
    /\ result.processedCount = Len(sourceAccountsRows)

\* a run returned a page of two records, one with a candidate and one with no
\* candidate in either system
MatchesCoverPageWitness ==
  /\ pc = "done"
  /\ Len(sourceAccountsRows) = 2
  /\ \E i, j \in 1..Len(result.matches) :
       /\ result.matches[i].dimensionsMatch = 0
       /\ result.matches[i].salesforceMatch = 0
       /\ result.matches[j].dimensionsMatch # 0

\* C2: the i-th entry of matches is the result for the i-th source record of
\* the page: it carries that record, and for each reference system the verdict
\* that the sub-batch call of the pair built for that record returned (null
\* when no pair was built), in whatever order the sub-batch calls completed.
MatchesInPageOrder ==
  pc = "done" =>
    /\ Len(result.matches) = Len(sourceAccountsRows)
    /\ \A i \in 1..Len(result.matches) :
         LET m == result.matches[i]
             verdict(type) ==
               IF \E k \in 1..Len(aiPairs) :
                    aiPairs[k].index = i - 1 /\ aiPairs[k].targetType = type
               THEN LET k == CHOOSE k \in 1..Len(aiPairs) :
                               aiPairs[k].index = i - 1 /\ aiPairs[k].targetType = type
                    IN batchResult[((k - 1) \div BATCH_SIZE) + 1][aiPairs[k].id]
               ELSE null
         IN /\ m.sourceAccount = sourceAccountsRows[i]
            /\ m.dimensionsAI = verdict("dimensions")
            /\ m.salesforceAI = verdict("salesforce")

\* the second sub-batch completed before the first one, on a page whose first
\* record has no pair
MatchesInPageOrderWitness ==
  /\ pc = "done"
  /\ completed = <<2, 1>>
  /\ Len(result.matches) = 4
  /\ result.matches[1].dimensionsMatch = 0
  /\ result.matches[2].salesforceAI # result.matches[4].salesforceAI

\* C3: on every return path hasMore = (offset + processedCount <
\* totalSourceAccounts), and a call whose offset is at or past the count the
\* count read returned has returned the empty result with hasMore false and
\* has raised nothing.
HasMoreIsRemainder ==
  /\ pc = "done" =>
       result.hasMore = ((startIndex + result.processedCount) < result.totalSourceAccounts)
  /\ (pc # "awaitCount" /\ thrown # "getTotalSourceCount"
        /\ startIndex >= totalSourceAccounts) =>
       /\ pc = "done"
       /\ thrown = "none"
       /\ result.matches = <<>>
       /\ result.processedCount = 0
       /\ ~result.hasMore

\* a run returned the last page of the store, read from an offset above 0
HasMoreIsRemainderWitness ==
  /\ pc = "done"
  /\ startIndex > 0
  /\ result.processedCount > 0
  /\ startIndex + result.processedCount = result.totalSourceAccounts
  /\ ~result.hasMore

\* C4: when the page read returns no source record the result has hasMore
\* false, whatever the count read returned.
EmptyPageHasNoMore ==
  (pc = "done" /\ pageRead /\ Len(sourceAccountsRows) = 0) => ~result.hasMore

\* C5: when the batched candidate search of either system has failed, the
\* run raises an error and returns no result.
RetrievalFailureRaises ==
  pc = "done" => searchErrors = {}

(***************************************************************************)
(* Properties of validateBatchWithAI.                                      *)
(***************************************************************************)
\* C6: for every response text, each settled sub-batch call returns exactly
\* one verdict per requested id and validateBatchWithAI returns, without an
\* error, a map holding exactly the ids of the pairs; an id for which the
\* response has no usable line has isMatch false and confidence 0.
OneVerdictPerPair ==
  /\ \A b \in DOMAIN req :
       req[b] = "done" => DOMAIN batchResult[b] = SeqRange(Batches[b])
  /\ pc = "done" =>
       /\ thrown = "none"
       /\ DOMAIN aiResults = SeqRange(PairIds(aiPairs))
       /\ \A id \in unanswered :
            ~aiResults[id].isMatch /\ aiResults[id].confidence = 0

\* six pairs in two sub-batches were validated; the response left some id
\* without a usable line and gave a positive verdict for another
OneVerdictPerPairWitness ==
  /\ pc = "done"
  /\ Len(aiPairs) = 6
  /\ unanswered # {}
  /\ \E id \in DOMAIN aiResults : aiResults[id].isMatch

\* C7: when the call of a sub-batch fails, each of its pairs gets isMatch
\* false, confidence 0 and the error field set; validateBatchWithAI returns
\* for every pair the verdict its own sub-batch call produced, and the run
\* returns a result with an entry for every record of the page.
FailedBatchDegrades ==
  /\ \A b \in DOMAIN req :
       (req[b] = "done" /\ callOutcome[b] \in FailureKinds) =>
          /\ DOMAIN batchResult[b] = SeqRange(Batches[b])
          /\ \A id \in SeqRange(Batches[b]) :
               /\ ~batchResult[b][id].isMatch
               /\ batchResult[b][id].confidence = 0
               /\ batchResult[b][id].error # NoError
  /\ pc = "done" =>
       /\ \A b \in DOMAIN req : \A id \in SeqRange(Batches[b]) :
            /\ id \in DOMAIN aiResults
            /\ id \in DOMAIN batchResult[b]
            /\ aiResults[id] = batchResult[b][id]
       /\ result.processedCount = Len(sourceAccountsRows)
       /\ Len(result.matches) = Len(sourceAccountsRows)

\* one sub-batch failed and the other was answered with a positive verdict
FailedBatchDegradesWitness ==
  /\ pc = "done"
  /\ \E b, c \in DOMAIN req :
       /\ callOutcome[b] \in FailureKinds
       /\ callOutcome[c] = "text"
       /\ \E id \in SeqRange(Batches[c]) : aiResults[id].isMatch
       /\ \A id \in SeqRange(Batches[b]) : aiResults[id].error # NoError

\* C8: a pair for which the response holds no usable line does not resolve to
\* REJECTED: the status of its record for its reference system is not
\* REJECTED, and the verdict it was given yields REJECTED for no heuristic
\* score of the ambiguous band.
MissingVerdictNotRejected ==
  pc = "done" =>
    \A k \in 1..Len(aiPairs) :
       aiPairs[k].id \in unanswered =>
          LET m == result.matches[aiPairs[k].index + 1]
          IN /\ (aiPairs[k].targetType = "dimensions") =>
                   m.dimensionsStatus # "REJECTED"
             /\ (aiPairs[k].targetType = "salesforce") =>
                   m.salesforceStatus # "REJECTED"
             /\ \A s \in AI_CONFIG.minScore..AI_CONFIG.maxScore :
                   determineFinalStatus(s, aiResults[aiPairs[k].id]) # "REJECTED"

\* a run returned after a response that named none of the ids of a sub-batch
MissingVerdictNotRejectedWitness ==
  /\ pc = "done"
  /\ \E b \in DOMAIN req :
       /\ callOutcome[b] = "text"
       /\ SeqRange(Batches[b]) \subseteq unanswered
  /\ \E i \in 1..Len(result.matches) :
       /\ result.matches[i].dimensionsStatus = "REVIEW"
       /\ result.matches[i].dimensionsAI.reasoning = "AI did not return result"

\* C9: a run whose judge call has stalled is never stuck: as long as it has
\* not returned it can take a further step (the time-out of the stalled call,
\* which gives the pairs of the sub-batch error verdicts), so that it goes on
\* to return its result.
HungCallTimesOut ==
  (pc = "awaitAI" /\ \E b \in DOMAIN req : req[b] = "hung") => ENABLED Next

VerdictStatusTable ==
  (status # "idle" /\ aiResult # null /\ aiResult.error = NoError) =>
     LET c == aiResult.confidence
         yes == aiResult.isMatch
     IN status =
          IF c >= 80 THEN (IF yes THEN "CONFIRMED" ELSE "REJECTED")
          ELSE IF c >= 60 /\ c < 80 /\ yes /\ heuristicScore >= 85 THEN "CONFIRMED"
          ELSE IF c >= 60 /\ c < 80 /\ ~yes /\ heuristicScore < 50 THEN "REJECTED"
          ELSE "REVIEW"

\* a negative verdict of medium confidence at a score of 50, the first score
\* that is not rejected
VerdictStatusTableWitness ==
  /\ status = "REVIEW"
  /\ aiResult # null
  /\ aiResult.error = NoError
  /\ ~aiResult.isMatch
  /\ aiResult.confidence = 79
  /\ heuristicScore = 50

\* C12: for every record of a result, finalStatus is BOTH iff both
\* per-reference statuses are CONFIRMED or REVIEW, DIM_ONLY iff only the
\* Dimensions status is, SF_ONLY iff only the Salesforce status is, and NEW iff
\* neither is; REJECTED and NEW never count as present.
FinalStatusCombines ==
  pc = "done" =>
    \A i \in 1..Len(result.matches) :
       LET m == result.matches[i]
           present(s) == s \in {"CONFIRMED", "REVIEW"}
           dim == present(m.dimensionsStatus)
           sf == present(m.salesforceStatus)
       IN /\ m.dimensionsStatus \in {"CONFIRMED", "REVIEW", "REJECTED", "NEW"}
          /\ m.salesforceStatus \in {"CONFIRMED", "REVIEW", "REJECTED", "NEW"}
          /\ (m.finalStatus = "BOTH") <=> (dim /\ sf)
          /\ (m.finalStatus = "DIM_ONLY") <=> (dim /\ ~sf)
          /\ (m.finalStatus = "SF_ONLY") <=> (~dim /\ sf)
          /\ (m.finalStatus = "NEW") <=> (~dim /\ ~sf)

\* a record rejected by the judge in Dimensions and confirmed in Salesforce
FinalStatusCombinesWitness ==
  /\ pc = "done"
  /\ \E i \in 1..Len(result.matches) :
       /\ result.matches[i].dimensionsStatus = "REJECTED"
       /\ result.matches[i].salesforceStatus = "CONFIRMED"
       /\ result.matches[i].finalStatus = "SF_ONLY"

(***************************************************************************)
(* SpecScore: one call of calculateMatchScore, on every combination of the *)
(* outcomes compareFieldValues can return for the configured fields.       *)
(***************************************************************************)
\* the returns of compareFieldValues (normalize.ts) for a field: Phone and
\* Website are equal or not; the other fields are equal, or similar above
\* the threshold (0.6 for Name, 0.8 otherwise) with the similarity
\* compareTwoStrings gives, or neither
compareFieldValues(field) ==
  IF field \in {"Phone", "Website"} THEN {NoneCmp, Cmp("none", 100), ExactCmp}
  ELSE IF field = "Name"
       THEN {NoneCmp, Cmp("none", 60), Cmp("partial", 61), Cmp("partial", 99), ExactCmp}
       ELSE {NoneCmp, Cmp("none", 80), Cmp("partial", 81), Cmp("partial", 99), ExactCmp}

\* pc, thrown, store, ... of a model in which no processSourceChunk run is
\* under way
NoRun ==
  /\ thrown = "none"
  /\ store = 0
  /\ chunkSize = 0
  /\ startIndex = 0
  /\ enableAI = FALSE
  /\ totalSourceAccounts = 0
  /\ sourceAccountsRows = <<>>
  /\ pageRead = FALSE
  /\ dimMatchesMap = <<>>
  /\ searchErrors = {}
  /\ pendingMatches = <<>>
  /\ aiPairs = <<>>
  /\ AIIdle
  /\ result = NoResult

InitScore ==
  /\ fieldComparisons \in
       { Row(name, phone, website, street, city, cross) :
           name \in compareFieldValues("Name"),
           phone \in compareFieldValues("Phone"),
           website \in compareFieldValues("Website"),
           street \in compareFieldValues("BillingStreet"),
           city \in compareFieldValues("BillingCity"),
           cross \in {"none", "websiteToEmail", "emailToWebsite", "both"} }
  /\ totalScore = 0
  /\ pc = "score"
  /\ NoRun
  /\ StatusIdle
  /\ NormIdle
  /\ runs = <<>>
  /\ queries = <<>>
  /\ ParseIdle
  /\ AccountIdle

CalculateMatchScore ==
  /\ pc = "score"
  /\ totalScore' = calculateMatchScore(fieldComparisons)
  /\ matchedFields' = MatchedFields(fieldComparisons)
  /\ pc' = "done"
  /\ UNCHANGED <<thrown, store, inputVars, pageVars, dimMatchesMap, searchErrors,
                 pendingMatches, aiPairs, aiVars, result, statusVars,
                 fieldComparisons, normVars, runs, queries, parseVars,
                 sourceAccount, targetAccount>>

SpecScore == InitScore /\ [][CalculateMatchScore]_vars

\* C13: calculateMatchScore returns a score between 0 and 195, the sum of
\* the field weights 85 + 30 + 25 + 20 + 10 plus the cross-match bonus 25; no
\* field contributes a negative amount and the bonus is added at most once.
ScoreWithinBounds ==
  pc = "done" =>
     /\ totalScore >= 0
     /\ totalScore <= 195
     /\ 195 = 85 + 30 + 25 + 20 + 10 + 25
     /\ \A k \in 1..Len(FieldNames) :
          FieldScore(FieldNames[k], fieldComparisons[FieldNames[k]]) >= 0
     /\ totalScore - SumFields(fieldComparisons, Len(FieldNames)) \in {0, 25}

\* every field equal and both cross comparisons equal: the highest score
ScoreWithinBoundsWitness ==
  /\ pc = "done"
  /\ fieldComparisons = Row(ExactCmp, ExactCmp, ExactCmp, ExactCmp, ExactCmp, "both")
  /\ totalScore = 195

(***************************************************************************)
(* The normalizers (normalize.ts).  A string is a sequence of pieces: a    *)
(* lower-case word or an atom of a URL, a capitalised word, a digit, a     *)
(* blank " ", or a punctuation character.  Strings in which two words      *)
(* touch each other or are separated by punctuation alone are left out, so *)
(* that every word of a string is a piece of it.                           *)
(***************************************************************************)
\* pieces of the strings normalized below
MaxPieces == 4

\* characters of the phone numbers normalized below
MaxDigits == 5

Blank == " "

Punctuation == {"!", "-", "&"}

Digits == {"0", "1", "4", "6"}

Capitalised == [Ltd |-> "ltd", Acme |-> "acme", HTTP |-> "http:"]

\* String.toLowerCase
toLowerCase(str) ==
  [i \in 1..Len(str) |->
     IF str[i] \in DOMAIN Capitalised THEN Capitalised[str[i]] ELSE str[i]]

RECURSIVE trimStart(_)
trimStart(str) ==
  IF str # <<>> /\ Head(str) = Blank THEN trimStart(Tail(str)) ELSE str

RECURSIVE trimEnd(_)
trimEnd(str) ==
  IF str # <<>> /\ str[Len(str)] = Blank
  THEN trimEnd(SubSeq(str, 1, Len(str) - 1)) ELSE str

\* String.trim
trim(str) == trimEnd(trimStart(str))

\* .replace(/\s+/g, ' ')
RECURSIVE CollapseBlanks(_)
CollapseBlanks(str) ==
  IF Len(str) < 2 THEN str
  ELSE IF str[1] = Blank /\ str[2] = Blank THEN CollapseBlanks(Tail(str))
  ELSE <<str[1]>> \o CollapseBlanks(Tail(str))

\* lower-case, trim, drop what is neither a letter, a digit nor a blank,
\* collapse blanks: in this order
normalizeString(str) ==
  IF str = <<>> THEN <<>>
  ELSE CollapseBlanks(SelectSeq(trim(toLowerCase(str)),
                                LAMBDA piece : piece \notin Punctuation))

COMPANY_SUFFIXES ==
  << <<"ltd">>, <<"limited">>, <<"pty">>, <<"pty", Blank, "ltd">>,
     <<"pty", Blank, "limited">>, <<"inc">>, <<"incorporated">>, <<"llc">>,
     <<"plc">>, <<"llp">>, <<"group">>, <<"holdings">>, <<"corporation">>,
     <<"corp">>, <<"sa">>, <<"nv">>, <<"ab">>, <<"gmbh">>, <<"ag">>, <<"sarl">>,
     <<"pte">>, <<"lp">>, <<"llp">>, <<"co">>, <<"company">> >>

\* normalized.replace(new RegExp(`\\s*\\b${suffix}\\b\\s*$`), ''): the suffix
\* as the last word or words of the string, with the blanks around it
StripSuffix(str, suffix) ==
  LET body == trimEnd(str)
      start == Len(body) - Len(suffix)
  IN IF /\ start >= 0
        /\ SubSeq(body, start + 1, Len(body)) = suffix
        /\ (start = 0 \/ body[start] = Blank)
     THEN trimEnd(SubSeq(body, 1, start))
     ELSE str

\* COMPANY_SUFFIXES.forEach: each suffix is tried once, in the order of the
\* list (on the empty string no suffix matches)
RECURSIVE StripSuffixes(_, _)
StripSuffixes(str, k) ==
  IF str = <<>> \/ k > Len(COMPANY_SUFFIXES) THEN str
  ELSE StripSuffixes(StripSuffix(str, COMPANY_SUFFIXES[k]), k + 1)

normalizeCompanyName(name) ==
  IF name = <<>> THEN <<>>
  ELSE trim(SelectSeq(StripSuffixes(normalizeString(name), 1),
                      LAMBDA piece : piece \notin {"and", "&"}))

STREET_ABBREVIATIONS ==
  [st |-> "street", rd |-> "road", ave |-> "avenue", blvd |-> "boulevard",
   ln |-> "lane", dr |-> "drive", ct |-> "court", pl |-> "place", trl |-> "trail",
   pkwy |-> "parkway", hwy |-> "highway"]

normalizeAddress(address) ==
  IF address = <<>> THEN <<>>
  ELSE LET str == normalizeString(address)
       IN [i \in 1..Len(str) |->
             IF str[i] \in DOMAIN STREET_ABBREVIATIONS
             THEN STREET_ABBREVIATIONS[str[i]] ELSE str[i]]

\* the entries of PHONE_PREFIXES for the countries of Countries below
PHONE_PREFIXES ==
  [australia |-> [international |-> <<"6", "1">>, local |-> <<"0">>, length |-> 9],
   usa |-> [international |-> <<"1">>, local |-> <<"1">>, length |-> 10]]

DEFAULT_PREFIXES == [international |-> <<"4", "4">>, local |-> <<"0">>, length |-> 10]

startsWith(str, prefix) ==
  Len(str) >= Len(prefix) /\ SubSeq(str, 1, Len(prefix)) = prefix

\* for the countries of Countries the partial match of the code finds no
\* entry where the exact match finds none
normalizePhone(phone, c) ==
  LET prefixes == IF c \in DOMAIN PHONE_PREFIXES THEN PHONE_PREFIXES[c]
                  ELSE DEFAULT_PREFIXES
      digits == SelectSeq(phone, LAMBDA piece : piece \in Digits)
      national ==
        IF startsWith(digits, prefixes.international)
        THEN SubSeq(digits, Len(prefixes.international) + 1, Len(digits))
        ELSE IF startsWith(digits, prefixes.local) /\ prefixes.local = <<"0">>
             THEN Tail(digits)
             ELSE digits
  IN IF phone = <<>> THEN <<>>
     ELSE IF Len(digits) < 5 THEN <<>>
     ELSE IF Len(national) > prefixes.length
          THEN SubSeq(national, Len(national) - prefixes.length + 1, Len(national))
          ELSE national

\* str.split(separator)[0]
RECURSIVE FirstPart(_, _)
FirstPart(str, separator) ==
  IF str = <<>> \/ Head(str) = separator THEN <<>>
  ELSE <<Head(str)>> \o FirstPart(Tail(str), separator)

\* the pieces of a URL are "http:", "/", "www.", "?" and a host name
normalizeWebsite(url) ==
  LET lower == toLowerCase(url)
      noScheme == IF startsWith(lower, <<"http:", "/", "/">>)
                  THEN SubSeq(lower, 4, Len(lower)) ELSE lower
      noWww == IF startsWith(noScheme, <<"www.">>) THEN Tail(noScheme) ELSE noScheme
      noSlash == IF noWww # <<>> /\ noWww[Len(noWww)] = "/"
                 THEN SubSeq(noWww, 1, Len(noWww) - 1) ELSE noWww
  IN IF url = <<>> THEN <<>>
     ELSE FirstPart(FirstPart(noSlash, "/"), "?")

(***************************************************************************)
(* SpecNormalize: a normalizer applied to a string and then to its own     *)
(* value.                                                                  *)
(***************************************************************************)
RECURSIVE StringsUpTo(_, _)
StringsUpTo(pieces, n) ==
  IF n = 0 THEN { <<>> }
  ELSE LET shorter == StringsUpTo(pieces, n - 1)
       IN shorter \cup { Append(str, piece) : str \in shorter, piece \in pieces }

\* no two words of str touch, directly or across punctuation
WordsApart(str) ==
  LET kept == SelectSeq(str, LAMBDA piece : piece \notin Punctuation)
  IN \A i \in 1..(Len(kept) - 1) : kept[i] = Blank \/ kept[i + 1] = Blank

Names ==
  { str \in StringsUpTo({"acme", "Acme", "ltd", "group", "and", Blank, "!"}, MaxPieces) :
      WordsApart(str) }

Addresses ==
  { str \in StringsUpTo({"main", "st", "street", Blank, "!"}, MaxPieces) :
      WordsApart(str) }

Urls == StringsUpTo({"http:", "HTTP", "/", "www.", "x.com", "?"}, MaxPieces)

Phones == StringsUpTo(Digits \cup {"-"}, MaxDigits)

Countries == {"undefined", "australia", "usa", "japan"}

Apply(f, str, c) ==
  IF f = "normalizeCompanyName" THEN normalizeCompanyName(str)
  ELSE IF f = "normalizeAddress" THEN normalizeAddress(str)
  ELSE IF f = "normalizeWebsite" THEN normalizeWebsite(str)
  ELSE normalizePhone(str, c)

InitNormalize ==
  /\ \/ normalizer = "normalizeCompanyName" /\ input \in Names /\ country = "undefined"
     \/ normalizer = "normalizeAddress" /\ input \in Addresses /\ country = "undefined"
     \/ normalizer = "normalizeWebsite" /\ input \in Urls /\ country = "undefined"
     \/ normalizer = "normalizePhone" /\ input \in Phones /\ country \in Countries
  /\ normalized = <<>>
  /\ renormalized = <<>>
  /\ pc = "normalize"
  /\ NoRun
  /\ StatusIdle
  /\ ScoreIdle
  /\ runs = <<>>
  /\ queries = <<>>
  /\ ParseIdle
  /\ AccountIdle

Normalize ==
  /\ pc = "normalize"
  /\ normalized' = Apply(normalizer, input, country)
  /\ pc' = "renormalize"
  /\ UNCHANGED <<thrown, store, inputVars, pageVars, dimMatchesMap, searchErrors,
                 pendingMatches, aiPairs, aiVars, result, statusVars, scoreVars,
                 normalizer, input, country, renormalized, runs, queries, parseVars, accountVars>>

Renormalize ==
  /\ pc = "renormalize"
  /\ renormalized' = Apply(normalizer, normalized, country)
  /\ pc' = "done"
  /\ UNCHANGED <<thrown, store, inputVars, pageVars, dimMatchesMap, searchErrors,
                 pendingMatches, aiPairs, aiVars, result, statusVars, scoreVars,
                 normalizer, input, country, normalized, runs, queries, parseVars, accountVars>>

NextNormalize ==
  \/ Normalize
  \/ Renormalize

SpecNormalize == InitNormalize /\ [][NextNormalize]_vars

\* C14: each normalizer is idempotent: applied to its own value it returns
\* that value, for every string and, for normalizePhone, every country.
NormalizeIdempotent ==
  pc = "done" => renormalized = normalized

(***************************************************************************)
(* Two processSourceChunk runs that interleave at their awaits.  Every     *)
(* variable of processSourceChunk and of validateBatchWithAI is a local of *)
(* the call, so each run has its own copy, runs[r]; the runs share the     *)
(* store and the PostgresClient returned by getPostgresClient(), whose     *)
(* only field is the base url set in its constructor.  The answers a run   *)
(* received are kept in its dimMatchesMap, sfMatchesMap and calls.         *)
(***************************************************************************)
\* the locals of a processSourceChunk(offset, 1, true) call at its start
RunStart(offset) ==
  [pc |-> "awaitCount", thrown |-> "none", chunkSize |-> 1,
   startIndex |-> offset, totalSourceAccounts |-> 0,
   sourceAccountsRows |-> <<>>, dimMatchesMap |-> <<>>, sfMatchesMap |-> <<>>,
   pendingMatches |-> <<>>, aiPairs |-> <<>>, req |-> <<>>,
   batchResult |-> <<>>, calls |-> <<>>, groupStart |-> 1,
   resultMap |-> EmptyMap, result |-> NoResult]

\* await client.getTotalSourceCount() and the first return
RunCount(l) ==
  { [l EXCEPT !.pc = "threw", !.thrown = "getTotalSourceCount"],
    IF store = 0 \/ l.startIndex >= store
    THEN [l EXCEPT !.totalSourceAccounts = store,
                   !.result = ReturnNoMore(store), !.pc = "done"]
    ELSE [l EXCEPT !.totalSourceAccounts = store, !.pc = "awaitPage"] }

\* await client.getSourceAccountsChunk(chunkSize, startIndex) and the second return
RunPage(l) ==
  LET rows == getSourceAccountsChunk(store, l.chunkSize, l.startIndex)
  IN { [l EXCEPT !.pc = "threw", !.thrown = "getSourceAccountsChunk"],
       IF Len(rows) = 0
       THEN [l EXCEPT !.sourceAccountsRows = rows,
                      !.result = ReturnEmptyPage(l.totalSourceAccounts, l.startIndex),
                      !.pc = "done"]
       ELSE [l EXCEPT !.sourceAccountsRows = rows, !.pc = "awaitDim"] }

\* the candidate lists a search returns to one of two interleaved runs
RunCandLists == { <<>>, <<RowSameCity>>, <<RowAlikeName>>, <<RowNamePhone>> }

\* the maps findPotentialMatchesBatch can return for the page of l
RunSearches(l) ==
  LET ids == { i - 1 : i \in 1..Len(l.sourceAccountsRows) }
  IN { findPotentialMatchesBatch(ids, TRUE, found) : found \in [ids -> RunCandLists] }
       \cup { findPotentialMatchesBatch(ids, FALSE, <<>>) }

\* await client.findPotentialMatchesBatch(..., 'dimensions', 30)
RunDimensions(l) ==
  { [l EXCEPT !.dimMatchesMap = dim, !.pc = "awaitSf"] : dim \in RunSearches(l) }

\* the pair ids of a run in which "let pairId = 1" is a variable of the
\* module, shared by all runs, instead of a local of the call
RunScoredSharedPairId(l, sf) ==
  LET pending == ScoreAll(l.sourceAccountsRows, l.dimMatchesMap, sf)
      others == Len(runs[1].aiPairs) + Len(runs[2].aiPairs)
      alone == BuildPairs(pending, 1, <<>>)
      pairs == [i \in 1..Len(alone) |-> [alone[i] EXCEPT !.id = @ + others]]
      scored == [l EXCEPT !.sfMatchesMap = sf, !.pendingMatches = pending,
                          !.aiPairs = pairs]
  IN IF enableAI /\ Len(pairs) > 0
     THEN [scored EXCEPT !.req = FirstGroup(pairs).req,
                         !.batchResult = FirstGroup(pairs).batchResult,
                         !.calls = [b \in DOMAIN FirstGroup(pairs).req |->
                                      [kind |-> "pending", response |-> <<>>]],
                         !.pc = "awaitAI"]
     ELSE [scored EXCEPT !.result =
                           ReturnComplete(
                             BuildMatches(pending, PairIdMap(pairs), EmptyMap, pairs),
                             l.totalSourceAccounts, l.startIndex,
                             l.sourceAccountsRows),
                         !.pc = "done"]

\* what follows the second search up to the next await: scoring, pair
\* building from pairId = 1, and the first group of sendBatchRequest calls
\* or, with nothing to validate, the result
RunScored(l, sf) ==
  LET pending == ScoreAll(l.sourceAccountsRows, l.dimMatchesMap, sf)
      pairs == BuildPairs(pending, 1, <<>>)
      scored == [l EXCEPT !.sfMatchesMap = sf, !.pendingMatches = pending,
                          !.aiPairs = pairs]
  IN IF enableAI /\ Len(pairs) > 0
     THEN [scored EXCEPT !.req = FirstGroup(pairs).req,
                         !.batchResult = FirstGroup(pairs).batchResult,
                         !.calls = [b \in DOMAIN FirstGroup(pairs).req |->
                                      [kind |-> "pending", response |-> <<>>]],
                         !.pc = "awaitAI"]
     ELSE [scored EXCEPT !.result =
                           ReturnComplete(
                             BuildMatches(pending, PairIdMap(pairs), EmptyMap, pairs),
                             l.totalSourceAccounts, l.startIndex,
                             l.sourceAccountsRows),
                         !.pc = "done"]

\* await client.findPotentialMatchesBatch(..., 'salesforce', 30)
RunSalesforce(l) == { RunScored(l, sf) : sf \in RunSearches(l) }

\* batches = chunkArray(pairs, BATCH_SIZE) of the run l
RunBatches(l) == chunkArray(PairIds(l.aiPairs), BATCH_SIZE)

\* the ways a sendBatchRequest call for the pairs ids can end
RunCalls(ids) ==
  { [kind |-> "text", response |-> response] : response \in TypicalResponses(ids) }
    \cup { [kind |-> kind, response |-> <<>>] : kind \in FailureKinds }

\* one sendBatchRequest call of the current group settles
RunJudge(l) ==
  UNION { { [l EXCEPT !.req[b] = "done",
                      !.batchResult[b] = sendBatchRequest(RunBatches(l)[b], call),
                      !.calls[b] = call] : call \in RunCalls(RunBatches(l)[b]) } :
            b \in { c \in DOMAIN l.req : l.req[c] = "inflight" } }

\* "for (const batchResult of results)": the maps of a group in batch order
RECURSIVE RunMergeResults(_, _, _, _)
RunMergeResults(map, results, b, last) ==
  IF b > last THEN map
  ELSE RunMergeResults(MergeInto(map, results[b]), results, b + 1, last)

\* Promise.all of the current group resolves: merge, then the next group or,
\* after the last one, the return to processSourceChunk and its result
RunMerge(l) ==
  LET batches == RunBatches(l)
      last == IF l.groupStart + PARALLEL_BATCHES - 1 < Len(batches)
              THEN l.groupStart + PARALLEL_BATCHES - 1 ELSE Len(batches)
      merged == RunMergeResults(l.resultMap, l.batchResult, l.groupStart, last)
      next == l.groupStart + PARALLEL_BATCHES
  IN IF \E b \in l.groupStart..last : l.req[b] # "done" THEN {}
     ELSE IF next <= Len(batches)
     THEN { [l EXCEPT !.resultMap = merged, !.groupStart = next,
                      !.req = [b \in DOMAIN l.req |->
                                 IF b >= next /\ b < next + PARALLEL_BATCHES
                                 THEN "inflight" ELSE l.req[b]]] }
     ELSE { [l EXCEPT !.resultMap = merged,
                      !.result =
                        ReturnComplete(
                          BuildMatches(l.pendingMatches, PairIdMap(l.aiPairs),
                                       merged, l.aiPairs),
                          l.totalSourceAccounts, l.startIndex,
                          l.sourceAccountsRows),
                      !.pc = "done"] }

\* the states the run l can be in after its next resumption
RunSteps(l) ==
  IF l.pc = "awaitCount" THEN RunCount(l)
  ELSE IF l.pc = "awaitPage" THEN RunPage(l)
  ELSE IF l.pc = "awaitDim" THEN RunDimensions(l)
  ELSE IF l.pc = "awaitSf" THEN RunSalesforce(l)
  ELSE IF l.pc = "awaitAI" THEN RunJudge(l) \cup RunMerge(l)
  ELSE {}

InitConcurrent ==
  /\ pc = "concurrent"
  /\ thrown = "none"
  /\ store = MaxStore
  /\ chunkSize = 1
  /\ startIndex = 0
  /\ enableAI = TRUE
  /\ totalSourceAccounts = 0
  /\ sourceAccountsRows = <<>>
  /\ pageRead = FALSE
  /\ dimMatchesMap = <<>>
  /\ searchErrors = {}
  /\ pendingMatches = <<>>
  /\ aiPairs = <<>>
  /\ AIIdle
  /\ result = NoResult
  /\ StatusIdle
  /\ ScoreIdle
  /\ NormIdle
  /\ runs \in { <<RunStart(offsets[1]), RunStart(offsets[2])>> :
                  offsets \in { o \in (0..MaxStore) \X (0..MaxStore) : o[1] # o[2] } }
  /\ queries = <<>>
  /\ ParseIdle
  /\ AccountIdle

\* the event loop resumes one of the two runs
Resume ==
  /\ pc = "concurrent"
  /\ \E r \in DOMAIN runs :
       \E l \in RunSteps(runs[r]) : runs' = [runs EXCEPT ![r] = l]
  /\ UNCHANGED <<pc, thrown, store, inputVars, pageVars, dimMatchesMap,
                 searchErrors, pendingMatches, aiPairs, aiVars, result,
                 statusVars, scoreVars, normVars, queries, parseVars, accountVars>>

SpecConcurrent == InitConcurrent /\ [][Resume]_vars

\* the verdicts of validateBatchWithAI when the calls settle in batch order
RECURSIVE VerdictsAlone(_, _, _, _)
VerdictsAlone(batches, calls, b, map) ==
  IF b > Len(batches) THEN map
  ELSE VerdictsAlone(batches, calls, b + 1,
                     MergeInto(map, sendBatchRequest(batches[b], calls[b])))

\* the pairs and the result of processSourceChunk(l.startIndex, l.chunkSize,
\* enableAI), run from its first to its last statement against the store,
\* with the answers that l received
RunAlone(l) ==
  IF store = 0 \/ l.startIndex >= store
  THEN [aiPairs |-> <<>>, result |-> ReturnNoMore(store)]
  ELSE
    LET rows == getSourceAccountsChunk(store, l.chunkSize, l.startIndex)
        pending == ScoreAll(rows, l.dimMatchesMap, l.sfMatchesMap)
        pairs == BuildPairs(pending, 1, <<>>)
        verdicts ==
          IF enableAI /\ Len(pairs) > 0
          THEN VerdictsAlone(chunkArray(PairIds(pairs), BATCH_SIZE), l.calls,
                             1, EmptyMap)
          ELSE EmptyMap
    IN IF Len(rows) = 0
       THEN [aiPairs |-> <<>>, result |-> ReturnEmptyPage(store, l.startIndex)]
       ELSE [aiPairs |-> pairs,
             result |-> ReturnComplete(
                          BuildMatches(pending, PairIdMap(pairs), verdicts, pairs),
                          store, l.startIndex, rows)]

\* C15: of two processSourceChunk runs for different offsets that interleave
\* at their awaits, each returns the pairs (with their ids) and the result
\* (matches with their verdicts, stats, paging fields) that it returns when
\* it runs alone against the same store and receives the same answers
InterleavedRunsIndependent ==
  \A r \in DOMAIN runs :
     runs[r].pc = "done" =>
       /\ runs[r].aiPairs = RunAlone(runs[r]).aiPairs
       /\ runs[r].result = RunAlone(runs[r]).result

\* the first run has returned validated matches, having run from its pair
\* building to its return while the second run was suspended in its judge call
InterleavedRunsIndependentWitness ==
  /\ pc = "concurrent"
  /\ runs[1].pc = "done"
  /\ Len(runs[1].aiPairs) = 2
  /\ runs[1].result.stats.aiValidated > 0
  /\ runs[2].pc = "awaitAI"
  /\ Len(runs[2].aiPairs) > 0
  /\ runs[2].req[1] = "inflight"

(***************************************************************************)
(* The dispatch of sub-batches by validateBatchWithAI: a run suspended     *)
(* in validateBatchWithAI with up to MaxQueued pairs, enough for two       *)
(* groups of PARALLEL_BATCHES sub-batches.                                 *)
(***************************************************************************)
\* pairs handed to validateBatchWithAI in the dispatch specification
MaxQueued == 16

InitDispatch == \E n \in 1..MaxQueued : ValidationStart(n, 0)

NextDispatch ==
  \/ JudgeRespond
  \/ JudgeFail
  \/ JudgeHang
  \/ MergeGroup

SpecDispatch == InitDispatch /\ [][NextDispatch]_vars

\* the sub-batches whose sendBatchRequest call has been made and has not settled
InFlight == { b \in DOMAIN req : req[b] \in {"inflight", "hung"} }

\* C16: during validateBatchWithAI at most 2 sub-batch judge requests are
\* in flight at every moment, for any number of pairs
AtMostTwoInFlight ==
  pc = "awaitAI" => Cardinality(InFlight) <= 2

\* eleven or more pairs make three or more sub-batches: two are in flight
\* and one is queued
AtMostTwoInFlightWitness ==
  /\ pc = "awaitAI"
  /\ Len(aiPairs) >= 11
  /\ Cardinality(InFlight) = 2
  /\ \E b \in DOMAIN req : req[b] = "queued"

\* C17: whenever one of the two in-flight sub-batch requests completes and
\* undispatched sub-batches remain, the next one is dispatched in that step,
\* without waiting for the other in-flight request to complete
QueuedDispatchedOnCompletion ==
  [][ ((\E b \in DOMAIN req : req[b] = "inflight" /\ req'[b] = "done")
         /\ (\E q \in DOMAIN req : req[q] = "queued"))
      => (\E q \in DOMAIN req : req[q] = "queued" /\ req'[q] = "inflight") ]_vars

(***************************************************************************)
(* The judge requests of one processSourceChunk call: a run suspended in   *)
(* its second search, with AI validation enabled or disabled, over a page  *)
(* whose best candidates are in the ambiguous band, above it, or missing.  *)
(***************************************************************************)
\* the candidate maps a search returns for a page of len records: in-band
\* candidates for all records, for all but the last, none, or candidates
\* that score above the band
BandSearches(len) ==
  { ValidationPage(2 * len, 0).dim, ValidationPage(2 * len - 1, 0).sf,
    [id \in 0..(len - 1) |-> <<>>], [id \in 0..(len - 1) |-> <<RowNamePhone>>] }

InitRequests ==
  \E len \in 1..((MaxQueued + 1) \div 2) :
     /\ pc = "awaitSf"
     /\ thrown = "none"
     /\ store = len
     /\ chunkSize = len
     /\ startIndex = 0
     /\ enableAI \in BOOLEAN
     /\ totalSourceAccounts = len
     /\ sourceAccountsRows = [i \in 1..len |-> i]
     /\ pageRead = TRUE
     /\ dimMatchesMap \in BandSearches(len)
     /\ searchErrors = {}
     /\ pendingMatches = <<>>
     /\ aiPairs = <<>>
     /\ AIIdle
     /\ result = NoResult
     /\ StatusIdle
     /\ ScoreIdle
     /\ NormIdle
     /\ runs = <<>>
     /\ queries = BothQueries(sourceAccountsRows)
     /\ ParseIdle
     /\ AccountIdle

\* await client.findPotentialMatchesBatch(..., 'salesforce', 30)
FindSalesforceBand ==
  /\ pc = "awaitSf"
  /\ \E sf \in BandSearches(Len(sourceAccountsRows)) : Scored(sf)
  /\ UNCHANGED <<thrown, store, inputVars, pageVars, dimMatchesMap, searchErrors,
                 statusVars, scoreVars, normVars, runs, queries, parseVars, accountVars>>

NextRequests ==
  \/ FindSalesforceBand
  \/ JudgeRespond
  \/ JudgeFail
  \/ MergeGroup

SpecRequests == InitRequests /\ [][NextRequests]_vars

\* the sub-batches for which a sendBatchRequest call has been made
Issued == { b \in DOMAIN req : req[b] # "queued" }

\* C18: the judge requests partition the validation pairs: every pair is in
\* exactly one request, a request is made once also when it fails, and no
\* request carries more than 5 pairs; with AI validation disabled or with no
\* pair in the ambiguous band no judge request is made
RequestsPartitionPairs ==
  LET batches == Batches
      ids == SeqRange(PairIds(aiPairs))
      sent == [b \in DOMAIN req |->
                 Cardinality({ i \in DOMAIN completed : completed[i] = b })]
  IN /\ pc \in {"awaitAI", "done"} /\ enableAI /\ Len(aiPairs) > 0 =>
          /\ DOMAIN req = DOMAIN batches
          /\ \A b \in DOMAIN batches :
               /\ Len(batches[b]) <= 5
               /\ Cardinality(SeqRange(batches[b])) = Len(batches[b])
               /\ sent[b] = (IF req[b] = "done" THEN 1 ELSE 0)
          /\ \A id \in ids :
               Cardinality({ b \in DOMAIN batches : id \in SeqRange(batches[b]) }) = 1
          /\ \A b \in DOMAIN batches : SeqRange(batches[b]) \subseteq ids
          /\ pc = "done" => \A b \in DOMAIN req : req[b] = "done"
     /\ pc = "done" /\ (~enableAI \/ Len(aiPairs) = 0) =>
          /\ req = <<>>
          /\ completed = <<>>

\* a run over 11 or more pairs has returned: three or more requests were
\* made, one of them failed, and each completed once
RequestsPartitionPairsWitness ==
  /\ pc = "done"
  /\ enableAI
  /\ Len(aiPairs) >= 11
  /\ Len(completed) = Len(req)
  /\ \E b \in DOMAIN callOutcome : callOutcome[b] \in FailureKinds
  /\ \E b \in DOMAIN callOutcome : callOutcome[b] = "text"

(***************************************************************************)
(* Pair building at the edges of the ambiguous band: a run suspended in    *)
(* its second search over a page whose candidates score 0, 19, 20, 100 and *)
(* 101.                                                                    *)
(***************************************************************************)
\* records of the page in the pair building specification
MaxPage == 1

\* street similar at 0.95: Math.round(20 * 0.95) = 19
RowStreetAlike == Row(NoneCmp, NoneCmp, NoneCmp, Cmp("partial", 95), NoneCmp, "none")
\* same street: 20
RowSameStreet == Row(NoneCmp, NoneCmp, NoneCmp, ExactCmp, NoneCmp, "none")
\* similar name, same phone and street: 50 + 30 + 20 = 100
RowAlikeNamePhoneStreet ==
  Row(Cmp("partial", 70), ExactCmp, NoneCmp, ExactCmp, NoneCmp, "none")
\* same name, street similar at 0.81: 85 + Math.round(16.2) = 101
RowNameStreetAlike == Row(ExactCmp, NoneCmp, NoneCmp, Cmp("partial", 81), NoneCmp, "none")

\* the candidate lists a search returns for one source record
EdgeCandLists ==
  { <<>>, <<RowUnrelated>>, <<RowStreetAlike>>, <<RowSameStreet>>,
    <<RowAlikeNamePhoneStreet>>, <<RowNameStreetAlike>>,
    <<RowStreetAlike, RowAlikeNamePhoneStreet>> }

InitPairs ==
  \E len \in 1..MaxPage :
     /\ pc = "awaitSf"
     /\ thrown = "none"
     /\ store = len
     /\ chunkSize = len
     /\ startIndex = 0
     /\ enableAI \in BOOLEAN
     /\ totalSourceAccounts = len
     /\ sourceAccountsRows = [i \in 1..len |-> i]
     /\ pageRead = TRUE
     /\ dimMatchesMap \in [0..(len - 1) -> EdgeCandLists]
     /\ searchErrors = {}
     /\ pendingMatches = <<>>
     /\ aiPairs = <<>>
     /\ AIIdle
     /\ result = NoResult
     /\ StatusIdle
     /\ ScoreIdle
     /\ NormIdle
     /\ runs = <<>>
     /\ queries = BothQueries(sourceAccountsRows)
     /\ ParseIdle
     /\ AccountIdle

\* await client.findPotentialMatchesBatch(..., 'salesforce', 30)
FindSalesforceEdge ==
  /\ pc = "awaitSf"
  /\ \E sf \in [SourceIds -> EdgeCandLists] : Scored(sf)
  /\ UNCHANGED <<thrown, store, inputVars, pageVars, dimMatchesMap, searchErrors,
                 statusVars, scoreVars, normVars, runs, queries, parseVars, accountVars>>

NextPairs ==
  \/ FindSalesforceEdge
  \/ JudgeRespond
  \/ JudgeFail
  \/ MergeGroup

SpecPairs == InitPairs /\ [][NextPairs]_vars

\* the pairs built for the source record index and the reference system type
PairsFor(index, type) ==
  { k \in DOMAIN aiPairs : aiPairs[k].index = index /\ aiPairs[k].targetType = type }

\* C19: a validation pair is built for a (source record, reference system)
\* exactly when a best candidate was kept for it and its score s satisfies
\* 20 <= s <= 100; a best candidate with score below 20 or above 100 never
\* produces a pair
PairIffInBand ==
  pc \in {"awaitAI", "done"} =>
    \A k \in DOMAIN pendingMatches :
       LET pm == pendingMatches[k]
       IN /\ Cardinality(PairsFor(pm.index, "dimensions")) =
               (IF pm.dimensionsMatch # 0 /\ 20 <= pm.dimensionsScore
                     /\ pm.dimensionsScore <= 100 THEN 1 ELSE 0)
          /\ Cardinality(PairsFor(pm.index, "salesforce")) =
               (IF pm.salesforceMatch # 0 /\ 20 <= pm.salesforceScore
                     /\ pm.salesforceScore <= 100 THEN 1 ELSE 0)
          /\ \A p \in PairsFor(pm.index, "dimensions") :
               aiPairs[p].score = pm.dimensionsScore
          /\ \A p \in PairsFor(pm.index, "salesforce") :
               aiPairs[p].score = pm.salesforceScore

\* a record whose best Dimensions candidate scores 20 and whose best
\* Salesforce candidate scores 100 has a pair for each
PairIffInBandWitness ==
  /\ pc \in {"awaitAI", "done"}
  /\ \E k \in DOMAIN pendingMatches :
       /\ pendingMatches[k].dimensionsScore = 20
       /\ pendingMatches[k].salesforceScore = 100
       /\ PairsFor(pendingMatches[k].index, "dimensions") # {}
       /\ PairsFor(pendingMatches[k].index, "salesforce") # {}

\* C20: the ids of the validation pairs built in one processSourceChunk call
\* are 1..N with no gap and no duplicate, in page order of the source
\* records and, for one record, Dimensions before Salesforce; the call
\* starts at 1
PairIdsDense ==
  pc \in {"awaitAI", "done"} =>
    /\ \A i \in 1..Len(aiPairs) : aiPairs[i].id = i
    /\ { aiPairs[i].id : i \in 1..Len(aiPairs) } = 1..Len(aiPairs)
    /\ \A i \in 1..Len(aiPairs) : \A j \in 1..Len(aiPairs) :
         aiPairs[i].id < aiPairs[j].id =>
           \/ aiPairs[i].index < aiPairs[j].index
           \/ /\ aiPairs[i].index = aiPairs[j].index
              /\ aiPairs[i].targetType = "dimensions"
              /\ aiPairs[j].targetType = "salesforce"

\* the first record of the page has a Salesforce pair only and the second
\* record a pair for each system: ids 1, 2, 3
PairIdsDenseWitness ==
  /\ pc \in {"awaitAI", "done"}
  /\ Len(aiPairs) = 3
  /\ aiPairs[1].index = 0 /\ aiPairs[1].targetType = "salesforce"
  /\ aiPairs[2].index = 1 /\ aiPairs[2].targetType = "dimensions"
  /\ aiPairs[3].index = 1 /\ aiPairs[3].targetType = "salesforce"
  /\ aiPairs[3].id = 3

(***************************************************************************)
(* The choice of the best candidate: a run suspended in its second search  *)
(* over a page of one record whose Dimensions candidates are any list of   *)
(* up to MaxCands rows, with equal scores among them.                      *)
(***************************************************************************)
\* candidates one search returns for one source record
MaxCands == 3

\* same phone and street: 30 + 20 = 50, the score of RowAlikeName
RowPhoneStreet == Row(NoneCmp, ExactCmp, NoneCmp, ExactCmp, NoneCmp, "none")

\* the rows a search returns
BestRows == { RowUnrelated, RowSameCity, RowAlikeName, RowPhoneStreet, RowNamePhone }

InitBest ==
  /\ pc = "awaitSf"
  /\ thrown = "none"
  /\ store = 1
  /\ chunkSize = 1
  /\ startIndex = 0
  /\ enableAI \in BOOLEAN
  /\ totalSourceAccounts = 1
  /\ sourceAccountsRows = <<1>>
  /\ pageRead = TRUE
  /\ dimMatchesMap \in [{0} -> SeqsUpTo(BestRows, MaxCands)]
  /\ searchErrors = {}
  /\ pendingMatches = <<>>
  /\ aiPairs = <<>>
  /\ AIIdle
  /\ result = NoResult
  /\ StatusIdle
  /\ ScoreIdle
  /\ NormIdle
  /\ runs = <<>>
  /\ queries = BothQueries(sourceAccountsRows)
  /\ ParseIdle
  /\ AccountIdle

\* await client.findPotentialMatchesBatch(..., 'salesforce', 30)
FindSalesforceBest ==
  /\ pc = "awaitSf"
  /\ \E sf \in [SourceIds -> {<<>>, <<RowPhoneStreet, RowAlikeName>>}] : Scored(sf)
  /\ UNCHANGED <<thrown, store, inputVars, pageVars, dimMatchesMap, searchErrors,
                 statusVars, scoreVars, normVars, runs, queries, parseVars, accountVars>>

NextBest ==
  \/ FindSalesforceBest
  \/ JudgeRespond
  \/ JudgeFail
  \/ MergeGroup

SpecBest == InitBest /\ [][NextBest]_vars

OneQueryPerSystem ==
  /\ pc \in {"awaitCount", "awaitPage", "threw"} => queries = <<>>
  /\ pc = "done" /\ Len(sourceAccountsRows) = 0 => queries = <<>>
  /\ pc = "awaitDim" => queries = <<Query("dimensions", sourceAccountsRows)>>
  /\ pc \in {"awaitSf", "awaitAI"} \/ (pc = "done" /\ Len(sourceAccountsRows) > 0) =>
       queries = <<Query("dimensions", sourceAccountsRows),
                   Query("salesforce", sourceAccountsRows)>>
  /\ pc \in {"awaitDim", "awaitSf"} =>
       /\ pendingMatches = <<>>
       /\ aiPairs = <<>>
       /\ req = <<>>

\* a page of two records: the run has dispatched its judge requests after
\* two queries, each for both records
OneQueryPerSystemWitness ==
  /\ pc = "awaitAI"
  /\ Len(sourceAccountsRows) = 2
  /\ Len(queries) = 2
  /\ queries[1].ids = {0, 1}
  /\ \E b \in DOMAIN req : req[b] = "inflight"

(***************************************************************************)
(* SpecParse: one parseCSVResponse call (route.ts) for the requested ids   *)
(* 1, or 1 and 2, on a response of up to MaxCsvLines lines.                *)
(***************************************************************************)
\* lines of the response text handed to parseCSVResponse
MaxCsvLines == 3

\* the lines of a response: well-formed verdicts for the ids 1, 2 and for
\* 7, which is never requested; a second, different verdict for 1; a line
\* cut after the id; lines with no third token; lines whose third token is
\* a word, out of range, or a percentage; a line that starts with prose;
\* prose only
CsvLines ==
  { AnswerLine(1, "YES", 90), AnswerLine(2, "YES", 90), AnswerLine(7, "YES", 90),
    AnswerLine(1, "NO", 40),
    <<Num(1)>>,
    <<Num(1), Word("yes")>>,
    <<Num(1), Word("no")>>,
    <<Num(2), Word("YES"), Word("because")>>,
    <<Num(2), Word("NO"), Num(150)>>,
    <<Num(2), Word("Y"), Pct(80), Word("reason")>>,
    <<Word("junk"), Num(2), Word("NO"), Num(0)>>,
    <<Word("junk")>> }

InitParse ==
  /\ pc = "parse"
  /\ requestedIds \in { <<1>>, <<1, 2>> }
  /\ csvText \in SeqsUpTo(CsvLines, MaxCsvLines)
  /\ parsed = <<>>
  /\ NoRun
  /\ StatusIdle
  /\ ScoreIdle
  /\ NormIdle
  /\ runs = <<>>
  /\ queries = <<>>
  /\ AccountIdle

\* parseCSVResponse(response, pairs)
ParseCSVResponse ==
  /\ pc = "parse"
  /\ parsed' = parseCSVResponse(csvText, requestedIds)
  /\ pc' = "done"
  /\ UNCHANGED <<thrown, store, inputVars, pageVars, dimMatchesMap, searchErrors,
                 pendingMatches, aiPairs, aiVars, result, statusVars, scoreVars,
                 normVars, runs, queries, requestedIds, csvText, accountVars>>

SpecParse == InitParse /\ [][ParseCSVResponse]_vars

\* the id a line names: parseInt of its first token after the cleaning,
\* NaN for a line that holds no digit
FirstTokenId(line) ==
  IF StripLeading(line) = <<>> THEN NaN ELSE parseInt(StripLeading(line)[1])

\* the lines of the response whose first token parses to id
LinesNaming(id) == { l \in DOMAIN csvText : FirstTokenId(csvText[l]) = id }

\* those of them that hold a second token
VerdictLinesNaming(id) ==
  { l \in LinesNaming(id) : Len(StripLeading(csvText[l])) >= 2 }

Earliest(S) == CHOOSE l \in S : \A m \in S : l <= m

\* what parseCSVResponse makes of the line alone, for a request of id alone
VerdictOfLine(line, id) == parseCSVResponse(<<line>>, <<id>>)[1]

\* the entries of the output for id
EntriesFor(id) == { i \in DOMAIN parsed : parsed[i].id = id }

\* the original statement of C23: the verdict of a requested id is that of
\* the first line whose first token parses to the id
FirstLineWins ==
  pc = "done" /\ requestedIds # <<>> =>
    /\ \A i \in DOMAIN parsed : parsed[i].id \in SeqRange(requestedIds)
    /\ \A id \in SeqRange(requestedIds) :
         /\ Cardinality(EntriesFor(id)) = 1
         /\ LinesNaming(id) # {} =>
              \A i \in EntriesFor(id) :
                 parsed[i] = VerdictOfLine(csvText[Earliest(LinesNaming(id))], id)

\* C23: the verdict of a requested id is taken from the first response line
\* that holds at least two tokens and whose first token parses to that id;
\* later lines with the same id and lines whose id was not requested change
\* no verdict and add no entry; an id with no such line gets the default
FirstVerdictLineWins ==
  pc = "done" /\ requestedIds # <<>> =>
    /\ \A i \in DOMAIN parsed : parsed[i].id \in SeqRange(requestedIds)
    /\ \A id \in SeqRange(requestedIds) :
         /\ Cardinality(EntriesFor(id)) = 1
         /\ \A i \in EntriesFor(id) :
              IF VerdictLinesNaming(id) # {}
              THEN parsed[i] =
                     VerdictOfLine(csvText[Earliest(VerdictLinesNaming(id))], id)
              ELSE parsed[i] = VerdictOfLine(<<>>, id)

\* a line for an id that was not requested, then two lines with different
\* verdicts for id 1: the output holds the verdict of the first of the two
FirstVerdictLineWinsWitness ==
  /\ pc = "done"
  /\ requestedIds = <<1>>
  /\ csvText = <<AnswerLine(7, "YES", 90), AnswerLine(1, "NO", 40),
                 AnswerLine(1, "YES", 90)>>
  /\ Len(parsed) = 1
  /\ ~parsed[1].isMatch
  /\ parsed[1].confidence = 40

\* C24: a line with a requested id and a decision token but no third token
\* that is an integer in [0,100] gets confidence 70 when the decision is a
\* match and 85 when it is not; a third token that is an integer in
\* [0,100], with or without a trailing percent sign, is the confidence
DefaultConfidenceByDecision ==
  pc = "done" /\ requestedIds # <<>> =>
    \A id \in SeqRange(requestedIds) :
       VerdictLinesNaming(id) # {} =>
         LET parts == StripLeading(csvText[Earliest(VerdictLinesNaming(id))])
             third == IF Len(parts) >= 3 THEN parseInt(parts[3]) ELSE NaN
         IN \A i \in EntriesFor(id) :
               parsed[i].confidence =
                 (IF third # NaN /\ third >= 0 /\ third <= 100 THEN third
                  ELSE IF parsed[i].isMatch THEN 70 ELSE 85)

\* what the field adds to totalScore: the score less the score of the same
\* comparisons with the field not matched
Contribution(field) ==
  totalScore - calculateMatchScore([fieldComparisons EXCEPT ![field] = NoneCmp])

\* C25: a Name comparison with status partial contributes the alike weight
\* 50 multiplied by the similarity (to within rounding), an exact Name
\* match contributes 85, and every other matched field contributes
\* round(weight x similarity)
PartialNameScaledBySimilarity ==
  pc = "done" /\ sourceAccount = EmptyAccount /\ targetAccount = EmptyAccount =>
    /\ fieldComparisons.Name.status = "exact" => Contribution("Name") = 85
    /\ fieldComparisons.Name.status = "partial" =>
         /\ 100 * Contribution("Name") > 50 * fieldComparisons.Name.similarity - 100
         /\ 100 * Contribution("Name") < 50 * fieldComparisons.Name.similarity + 100
    /\ \A field \in {"Phone", "Website", "BillingStreet", "BillingCity"} :
         fieldComparisons[field].status # "none" =>
           Contribution(field) =
             RoundPoints(MATCHING.fields[field], fieldComparisons[field].similarity)

(***************************************************************************)
(* SpecCross: calculateMatchScore on two accounts described by their       *)
(* Website, Email and EmailDomain values.  A Website is a sequence of URL  *)
(* pieces, an Email a sequence of a local part, "@" and a domain, an       *)
(* EmailDomain a sequence of one domain; the empty sequence stands for a   *)
(* missing or empty value and for null.                                    *)
(***************************************************************************)
GENERIC_EMAIL_DOMAINS ==
  { "gmail.com", "yahoo.com", "yahoo.co.uk", "hotmail.com", "hotmail.co.uk",
    "outlook.com", "live.com", "msn.com", "aol.com", "icloud.com",
    "mail.com", "protonmail.com", "zoho.com", "yandex.com", "gmx.com",
    "googlemail.com", "me.com", "mac.com", "btinternet.com", "sky.com" }

\* the domain names of the accounts
DomainNames == { "acme.com", "other.com", "gmail.com" }

\* extractEmailDomain: the domain after the "@" that ends the address,
\* null for no such domain and for a generic one
extractEmailDomain(email) ==
  IF Len(email) >= 2 /\ email[Len(email) - 1] = "@" /\ email[Len(email)] \in DomainNames
  THEN (IF email[Len(email)] \in GENERIC_EMAIL_DOMAINS THEN <<>>
        ELSE <<email[Len(email)]>>)
  ELSE <<>>

\* account.EmailDomain || extractEmailDomain(account.Email || '')
EmailDomainOf(account) ==
  IF account.EmailDomain # <<>> THEN account.EmailDomain
  ELSE extractEmailDomain(account.Email)

\* which of the two cross comparisons of calculateMatchScore are equalities
crossComparisons(source, target) ==
  LET sourceWebsite == normalizeWebsite(source.Website)
      targetWebsite == normalizeWebsite(target.Website)
      websiteToEmail == /\ sourceWebsite # <<>>
                        /\ EmailDomainOf(target) # <<>>
                        /\ sourceWebsite = EmailDomainOf(target)
      emailToWebsite == /\ EmailDomainOf(source) # <<>>
                        /\ targetWebsite # <<>>
                        /\ EmailDomainOf(source) = targetWebsite
  IN IF websiteToEmail /\ emailToWebsite THEN "both"
     ELSE IF websiteToEmail THEN "websiteToEmail"
     ELSE IF emailToWebsite THEN "emailToWebsite"
     ELSE "none"

\* compareFieldValues('Website', value1, value2)
compareWebsites(value1, value2) ==
  IF value1 = <<>> \/ value2 = <<>> THEN NoneCmp
  ELSE LET norm1 == normalizeWebsite(value1)
           norm2 == normalizeWebsite(value2)
       IN Cmp(IF norm1 # <<>> /\ norm2 # <<>> /\ norm1 = norm2 THEN "exact" ELSE "none",
              IF norm1 = norm2 THEN 100 ELSE 0)

CrossAccounts ==
  [Website : { <<>>, <<"acme.com">>, <<"www.", "acme.com", "/">>, <<"other.com">>,
               <<"gmail.com">> },
   Email : { <<>>, <<"bob", "@", "acme.com">>, <<"bob", "@", "gmail.com">>, <<"bob">> },
   EmailDomain : { <<>>, <<"acme.com">>, <<"gmail.com">> }]

InitCross ==
  /\ pc = "score"
  /\ sourceAccount \in CrossAccounts
  /\ targetAccount \in CrossAccounts
  /\ fieldComparisons =
       Row(NoneCmp, NoneCmp,
           compareWebsites(sourceAccount.Website, targetAccount.Website),
           NoneCmp, NoneCmp, crossComparisons(sourceAccount, targetAccount))
  /\ totalScore = 0
  /\ matchedFields = <<>>
  /\ NoRun
  /\ StatusIdle
  /\ NormIdle
  /\ runs = <<>>
  /\ queries = <<>>
  /\ ParseIdle

SpecCross == InitCross /\ [][CalculateMatchScore]_vars

\* the cross-match entries of matchedFields
CrossEntries ==
  { i \in DOMAIN matchedFields :
      matchedFields[i] \in { "Website<->EmailDomain (cross-match)",
                             "EmailDomain<->Website (cross-match)" } }

\* account supplies a non-generic email-derived domain, has no Website, and
\* the domain equals the normalized Website of other
SuppliesDomainFor(account, other) ==
  /\ normalizeWebsite(account.Website) = <<>>
  /\ EmailDomainOf(account) # <<>>
  /\ \A i \in DOMAIN EmailDomainOf(account) :
        EmailDomainOf(account)[i] \notin GENERIC_EMAIL_DOMAINS
  /\ EmailDomainOf(account) = normalizeWebsite(other.Website)

\* C26: calculateMatchScore adds the 25-point cross-match bonus, recorded
\* as its own matchedFields entry, only when the side that supplies the
\* email-derived domain has no Website and that non-generic domain equals
\* the other side's normalized Website; when both sides have a Website no
\* cross-match bonus is added
CrossBonusOnlyWithoutWebsite ==
  pc = "done" /\ (sourceAccount # EmptyAccount \/ targetAccount # EmptyAccount) =>
    LET bonus == totalScore - SumFields(fieldComparisons, Len(FieldNames))
    IN /\ bonus \in {0, 25}
       /\ bonus = 25 <=> Cardinality(CrossEntries) = 1
       /\ bonus = 0 <=> CrossEntries = {}
       /\ bonus = 25 => \/ SuppliesDomainFor(targetAccount, sourceAccount)
                        \/ SuppliesDomainFor(sourceAccount, targetAccount)
       /\ normalizeWebsite(sourceAccount.Website) # <<>>
            /\ normalizeWebsite(targetAccount.Website) # <<>> => bonus = 0

(***************************************************************************)
(* The counters of a result against the records it returns.                *)
(***************************************************************************)
\* C27: in every result of processSourceChunk each record is counted in
\* exactly one of the four status counters, the one named by its finalStatus:
\* each counter equals the number of records with that finalStatus, and
\* stats.both + stats.dimOnly + stats.sfOnly + stats.new = matches.length =
\* processedCount.
StatsCountEachRecordOnce ==
  pc = "done" =>
    LET ms == result.matches
        counted(s) == Cardinality({ i \in 1..Len(ms) : ms[i].finalStatus = s })
    IN /\ result.stats.both = counted("BOTH")
       /\ result.stats.dimOnly = counted("DIM_ONLY")
       /\ result.stats.sfOnly = counted("SF_ONLY")
       /\ result.stats.new = counted("NEW")
       /\ result.stats.both + result.stats.dimOnly
            + result.stats.sfOnly + result.stats.new = Len(ms)
       /\ Len(ms) = result.processedCount

\* a result of two records, one present in both systems and one in neither
StatsCountEachRecordOnceWitness ==
  /\ pc = "done"
  /\ result.processedCount = 2
  /\ result.stats.both = 1
  /\ result.stats.new = 1
  /\ \E i \in 1..Len(result.matches) : result.matches[i].finalStatus = "BOTH"

(***************************************************************************)
(* Per-reference statuses of a result against the verdicts it carries.     *)
(***************************************************************************)
\* the verdict is an error-free positive one with confidence of at least 60
ConfirmingVerdict(ai) ==
  /\ ai # null
  /\ ai.error = NoError
  /\ ai.isMatch
  /\ ai.confidence >= 60

\* some record of the result has a per-reference status CONFIRMED
SomeConfirmed ==
  \E i \in 1..Len(result.matches) :
     \/ result.matches[i].dimensionsStatus = "CONFIRMED"
     \/ result.matches[i].salesforceStatus = "CONFIRMED"

FailedPairs ==
  { k \in DOMAIN aiPairs :
      \E b \in DOMAIN callOutcome :
         /\ callOutcome[b] \in FailureKinds
         /\ aiPairs[k].id \in SeqRange(Batches[b]) }

\* the entries of matches for the source record of a pair
EntriesOf(pair) ==
  { j \in DOMAIN pendingMatches : pendingMatches[j].index = pair.index }

\* C29: every (source record, reference system) whose validation pair was in
\* a failed judge sub-batch ends with per-reference status REVIEW, never
\* REJECTED or CONFIRMED (its score is in [20,100]); the record counts as
\* present in that system and its error verdict is kept in the result.
FailedPairsStayInReview ==
  pc = "done" =>
    \A k \in FailedPairs :
       /\ 20 <= aiPairs[k].score /\ aiPairs[k].score <= 100
       /\ EntriesOf(aiPairs[k]) # {}
       /\ \A j \in EntriesOf(aiPairs[k]) :
            LET m == result.matches[j]
            IN IF aiPairs[k].targetType = "dimensions"
               THEN /\ m.dimensionsStatus = "REVIEW"
                    /\ m.dimensionsAI # null
                    /\ m.dimensionsAI.error # NoError
                    /\ m.finalStatus \in {"BOTH", "DIM_ONLY"}
               ELSE /\ m.salesforceStatus = "REVIEW"
                    /\ m.salesforceAI # null
                    /\ m.salesforceAI.error # NoError
                    /\ m.finalStatus \in {"BOTH", "SF_ONLY"}

\* a record whose candidates score 20 in Dimensions and 100 in Salesforce,
\* both pairs in a sub-batch whose call failed, returned as present in both
FailedPairsStayInReviewWitness ==
  /\ pc = "done"
  /\ Cardinality(FailedPairs) = 2
  /\ \E j \in 1..Len(result.matches) :
       /\ result.matches[j].dimensionsScore = 20
       /\ result.matches[j].salesforceScore = 100
       /\ result.matches[j].dimensionsAI.error # NoError
       /\ result.matches[j].salesforceAI.error # NoError
       /\ result.matches[j].finalStatus = "BOTH"

(***************************************************************************)
(* The verdict fields of a result against the answers of the judge calls.  *)
(***************************************************************************)
\* the verdict a settled sub-batch call returned for the pair id, null when
\* no call returned one
ReturnedFor(id) ==
  LET holders == { b \in DOMAIN batchResult :
                     id \in SeqRange(Batches[b]) /\ id \in DOMAIN batchResult[b] }
  IN IF holders = {} THEN null ELSE batchResult[CHOOSE b \in holders : TRUE][id]

\* the verdict a record of the result carries for a reference system
StoredAI(m, type) ==
  IF type = "dimensions" THEN m.dimensionsAI ELSE m.salesforceAI

\* C30: the verdict stored in a record's dimensionsAI (salesforceAI) field
\* is the verdict returned for the pair id that was assigned to that same
\* record and that same reference system; a record and system for which no
\* pair was built carry a null verdict, whatever ids the judge responses
\* contain and however the pairs were split into sub-batches.
VerdictBelongsToItsPair ==
  pc = "done" =>
    /\ \A b \in DOMAIN batchResult : DOMAIN batchResult[b] \subseteq SeqRange(Batches[b])
    /\ \A j \in DOMAIN pendingMatches : \A type \in {"dimensions", "salesforce"} :
         LET ps == PairsFor(pendingMatches[j].index, type)
             stored == StoredAI(result.matches[j], type)
         IN /\ Cardinality(ps) <= 1
            /\ ps = {} => stored = null
            /\ \A p \in ps :
                 /\ \E b \in DOMAIN Batches : aiPairs[p].id \in SeqRange(Batches[b])
                 /\ enableAI => stored # null
                 /\ stored = ReturnedFor(aiPairs[p].id)

\* six pairs in two sub-batches around a record without candidates: a
\* record with a positive Dimensions verdict and a different Salesforce
\* verdict, the last pair answered positively in its own sub-batch, and one
\* pair left unanswered by a response
VerdictBelongsToItsPairWitness ==
  /\ pc = "done"
  /\ Len(Batches) = 2
  /\ Len(aiPairs) = 6
  /\ aiResults[6].isMatch
  /\ unanswered # {}
  /\ \E j \in 1..Len(result.matches) :
       /\ result.matches[j].dimensionsAI.isMatch
       /\ result.matches[j].salesforceAI # null
       /\ ~result.matches[j].salesforceAI.isMatch
  /\ \E j \in 1..Len(result.matches) :
       /\ result.matches[j].dimensionsAI = null
       /\ result.matches[j].salesforceAI = null

====
